---- MODULE Spec2Model ----
(***************************************************************************)
(* Pdf-Wiz: the request pipeline of main.py (one handler per route: stage  *)
(* the uploads, call one PDFProcessor operation, delete the inputs,        *)
(* respond), the download and create-zip routes, and the retention sweep   *)
(* of cleanup.py, over a shared file system with the zones uploads/ and    *)
(* outputs/.                                                               *)
(*                                                                         *)
(* Text is a sequence of one-character strings where the code parses it    *)
(* (pages, page_order, areas) and a sequence of tokens elsewhere (file     *)
(* names, messages).  A path is a record of the parts the f-string joins.  *)
(***************************************************************************)
EXTENDS FiniteSets, Integers, Sequences, TLC

VARIABLES
    fs,        \* the file system: path -> [isdir, mtime]
    created,   \* history: path -> number of creation events that targeted it
    nextId,    \* the next value uuid.uuid4() returns (identifiers are fresh)
    now,       \* time.time(), in seconds
    ticks,     \* number of clock advances so far
    req,       \* per request: the handler's position and locals
    sweep,     \* the locals of the running cleanup_old_files call
    swept,     \* history: paths removed by a sweep
    dl         \* the response of the last GET /api/download

vars == <<fs, created, nextId, now, ticks, req, sweep, swept, dl>>

(***************************************************************************)
(* Bounds                                                                  *)
(***************************************************************************)
MaxFiles == 2     \* uploads in one multi-file request
MaxPages == 2     \* pages of an uploaded document
MaxTicks == 2     \* clock advances per behaviour
MaxSweeps == 2    \* sweeps per behaviour
MaxDays == 2      \* days the clock counts before the time origin is moved
MaxItems == 3     \* comma-separated items of a pages or page_order field
MaxHops == 4      \* requests of a client that submits each output again

\* the requests of a behaviour; they run concurrently
Reqs == {1, 2}

(***************************************************************************)
(* Python built-ins used by the handlers                                   *)
(***************************************************************************)
Digits == {"0", "1", "2", "3", "4", "5", "6", "7", "8", "9"}

DigitVal(c) ==
    CASE c = "0" -> 0 [] c = "1" -> 1 [] c = "2" -> 2 [] c = "3" -> 3
      [] c = "4" -> 4 [] c = "5" -> 5 [] c = "6" -> 6 [] c = "7" -> 7
      [] c = "8" -> 8 [] c = "9" -> 9

RECURSIVE LStrip(_)
LStrip(s) == IF s # <<>> /\ Head(s) = " " THEN LStrip(Tail(s)) ELSE s

RECURSIVE RStrip(_)
RStrip(s) ==
    IF s # <<>> /\ s[Len(s)] = " " THEN RStrip(SubSeq(s, 1, Len(s) - 1)) ELSE s

\* str.strip()
Strip(s) == RStrip(LStrip(s))

\* str.split(sep): the pieces between the separators, at least one piece
RECURSIVE Split(_, _)
Split(s, sep) ==
    IF \E i \in 1..Len(s) : s[i] = sep
    THEN LET i == CHOOSE k \in 1..Len(s) :
                      s[k] = sep /\ \A j \in 1..(k - 1) : s[j] # sep
         IN  <<SubSeq(s, 1, i - 1)>> \o Split(SubSeq(s, i + 1, Len(s)), sep)
    ELSE <<s>>

RECURSIVE DigitsVal(_)
DigitsVal(s) ==
    IF s = <<>> THEN 0
    ELSE 10 * DigitsVal(SubSeq(s, 1, Len(s) - 1)) + DigitVal(s[Len(s)])

\* int(s): surrounding whitespace is ignored, an optional sign, then digits;
\* anything else raises ValueError
IntBody(s) == LET t == Strip(s) IN IF t # <<>> /\ Head(t) = "-" THEN Tail(t) ELSE t

IsInt(s) == IntBody(s) # <<>> /\ \A i \in 1..Len(IntBody(s)) : IntBody(s)[i] \in Digits

IntOf(s) ==
    LET t == Strip(s)
    IN  IF Head(t) = "-" THEN 0 - DigitsVal(IntBody(s)) ELSE DigitsVal(IntBody(s))

\* str.lower() on the tokens file names are built from
Lower(tok) ==
    CASE tok = ".PDF"  -> ".pdf"
      [] tok = ".Pdf"  -> ".pdf"
      [] tok = ".JPG"  -> ".jpg"
      [] tok = ".DOCX" -> ".docx"
      [] tok = "DOC"   -> "doc"
      [] OTHER         -> tok

\* filename.lower().endswith(exts); the extension is the last token of a name
EndsWith(filename, exts) ==
    filename # <<>> /\ Lower(filename[Len(filename)]) \in exts

(***************************************************************************)
(* File names, paths and the file system                                   *)
(***************************************************************************)
N_pdf   == <<"doc", ".pdf">>
N_PDF   == <<"doc", ".PDF">>
N_txt   == <<"doc", ".txt">>
N_jpg   == <<"img", ".jpg">>
N_docx  == <<"doc", ".docx">>
N_xlsx  == <<"doc", ".xlsx">>
N_pptx  == <<"doc", ".pptx">>
N_slash == <<"dir", "/", "doc", ".pdf">>
GitKeep == <<".gitkeep">>

Zones == {"uploads", "outputs"}

\* f"uploads/{uuid.uuid4()}_{file.filename}"
UploadPath(id, filename) ==
    [dir |-> "uploads", pre |-> "", idx |-> 0, id |-> id, name |-> filename,
     suf |-> ""]

\* f"outputs/<prefix>_{uuid.uuid4()}.pdf"
OutputPath(prefix, id) ==
    [dir |-> "outputs", pre |-> prefix, idx |-> 0, id |-> id, name |-> <<>>,
     suf |-> ".pdf"]

\* f"outputs/split_{i+1}_{os.path.basename(input_path)}"
SplitPath(i, input) ==
    [dir |-> "outputs", pre |-> "split", idx |-> i, id |-> input.id,
     name |-> input.name, suf |-> ""]

\* os.path.splitext(name)[0]: the name without its last extension
SplitExt(name) ==
    IF name # <<>> /\ Len(name) > 1 THEN SubSeq(name, 1, Len(name) - 1) ELSE name

\* f"outputs/{base_name}_page_{i+1}.{format.lower()}", format = 'JPEG'
ImagePath(input, i) ==
    [dir |-> "outputs", pre |-> "_page_", idx |-> i, id |-> input.id,
     name |-> SplitExt(input.name), suf |-> ".jpeg"]

\* f"outputs/download_{uuid.uuid4().hex}.zip"
ZipPath(id) ==
    [dir |-> "outputs", pre |-> "download", idx |-> 0, id |-> id,
     name |-> <<>>, suf |-> ".zip"]

\* a file or directory that no handler names
PlainPath(dir, name) ==
    [dir |-> dir, pre |-> "", idx |-> 0, id |-> 0, name |-> name, suf |-> ""]

\* os.listdir(directory)
ListDir(files, directory) == {p \in DOMAIN files : p.dir = directory}

\* open(path, "wb") and write: the file exists afterwards, modified now
WriteFile(files, path, t) ==
    [p \in DOMAIN files \cup {path} |->
        IF p = path THEN [isdir |-> FALSE, mtime |-> t] ELSE files[p]]

RECURSIVE WriteAll(_, _, _)
WriteAll(files, paths, t) ==
    IF paths = <<>> THEN files
    ELSE WriteAll(WriteFile(files, Head(paths), t), Tail(paths), t)

\* os.remove(path) of an existing file
RemoveFile(files, path) == [p \in DOMAIN files \ {path} |-> files[p]]

\* the creation events of a sequence of writes, added to the history
RECURSIVE LogCreated(_, _)
LogCreated(log, paths) ==
    IF paths = <<>> THEN log
    ELSE LET p == Head(paths)
             n == IF p \in DOMAIN log THEN log[p] + 1 ELSE 1
         IN  LogCreated([q \in DOMAIN log \cup {p} |-> IF q = p THEN n ELSE log[q]],
                        Tail(paths))

\* open(temp_path, "wb") fails when the name has a directory part, because
\* the directory uploads/<uuid>_<part> does not exist
Writable(filename) == \A i \in 1..Len(filename) : filename[i] # "/"

(***************************************************************************)
(* Exceptions and responses                                                *)
(***************************************************************************)
NoExc == [type |-> "none", status |-> 0, msg |-> <<>>]

HTTPException(status, detail) ==
    [type |-> "HTTPException", status |-> status, msg |-> detail]

Raise(type, msg) == [type |-> type, status |-> 0, msg |-> msg]

StatusText(status) ==
    CASE status = 400 -> "400" [] status = 404 -> "404" [] status = 500 -> "500"

\* str(e); for an HTTPException it is "<status>: <detail>"
Str(e) ==
    IF e.type = "HTTPException" THEN <<StatusText(e.status), ": ">> \o e.msg
    ELSE e.msg

NoBody == [k \in {} |-> ""]

NoResponse == [status |-> 0, detail |-> <<>>, body |-> NoBody]

\* an except clause that hides the exception's text
ErrorResponseGeneric(e) ==
    [status |-> 500, detail |-> <<"Internal Server Error">>, body |-> NoBody]

\* except Exception as e: raise HTTPException(status_code=500, detail=str(e))
ErrorResponse(e) == [status |-> 500, detail |-> Str(e), body |-> NoBody]

\* return {...}: a 200 response with the JSON body
OkResponse(body) == [status |-> 200, detail |-> <<>>, body |-> body]

(***************************************************************************)
(* The POST handlers of main.py                                            *)
(***************************************************************************)
LoopOps   == {"merge_pdfs", "jpg_to_pdf"}
PagesOps  == {"split_pdf", "extract_pages", "organize_pdf", "remove_pages"}
SingleOps == {"split_pdf", "extract_pages", "rotate_pdf", "compress_pdf",
              "protect_pdf", "unlock_pdf", "pdf_to_jpg", "add_watermark",
              "organize_pdf", "remove_pages", "optimize_pdf", "repair_pdf",
              "ocr_pdf", "add_page_numbers", "crop_pdf", "word_to_pdf",
              "excel_to_pdf", "powerpoint_to_pdf", "pdf_to_pdfa", "sign_pdf",
              "redact_pdf"}
PairOps   == {"compare_pdfs"}
ListOps   == {"split_pdf", "pdf_to_jpg"}      \* answer with output_files
UploadOps == LoopOps \cup SingleOps \cup PairOps
FacadeOps == UploadOps \cup {"html_to_pdf"}
PostOps   == FacadeOps \cup {"create_zip"}

\* the allow-list of each handler's endswith test
Accepts(op) ==
    CASE op = "jpg_to_pdf"        -> {".jpg", ".jpeg", ".png"}
      [] op = "word_to_pdf"       -> {".docx", ".doc"}
      [] op = "excel_to_pdf"      -> {".xlsx", ".xls"}
      [] op = "powerpoint_to_pdf" -> {".pptx", ".ppt"}
      [] OTHER                    -> {".pdf"}

\* the detail of the handler's extension rejection
RejectDetail(op, filename) ==
    CASE op = "merge_pdfs"        -> <<"File ">> \o filename \o <<" is not a PDF">>
      [] op = "jpg_to_pdf"        -> <<"File ">> \o filename \o <<" is not a valid image">>
      [] op = "word_to_pdf"       -> <<"File must be a Word document">>
      [] op = "excel_to_pdf"      -> <<"File must be an Excel file">>
      [] op = "powerpoint_to_pdf" -> <<"File must be a PowerPoint file">>
      [] op = "compare_pdfs"      -> <<"Both files must be PDFs">>
      [] OTHER                    -> <<"File must be a PDF">>

\* the name between outputs/ and the identifier of the handler's output_path
Prefix(op) ==
    CASE op = "merge_pdfs" -> "merged"          [] op = "extract_pages" -> "extracted"
      [] op = "rotate_pdf" -> "rotated"         [] op = "compress_pdf" -> "compressed"
      [] op = "protect_pdf" -> "protected"      [] op = "unlock_pdf" -> "unlocked"
      [] op = "jpg_to_pdf" -> "images_to_pdf"   [] op = "add_watermark" -> "watermarked"
      [] op = "organize_pdf" -> "organized"     [] op = "remove_pages" -> "removed_pages"
      [] op = "optimize_pdf" -> "optimized"     [] op = "repair_pdf" -> "repaired"
      [] op = "ocr_pdf" -> "ocr"                [] op = "add_page_numbers" -> "page_numbers"
      [] op = "crop_pdf" -> "cropped"           [] op = "word_to_pdf" -> "word_to_pdf"
      [] op = "excel_to_pdf" -> "excel_to_pdf"  [] op = "powerpoint_to_pdf" -> "ppt_to_pdf"
      [] op = "html_to_pdf" -> "html_to_pdf"    [] op = "pdf_to_pdfa" -> "pdfa"
      [] op = "sign_pdf" -> "signed"            [] op = "redact_pdf" -> "redacted"
      [] op = "compare_pdfs" -> "comparison"

\* the message of the handler's success body
AngleText(angle) ==
    CASE angle = 90 -> "90" [] angle = 180 -> "180" [] angle = 270 -> "270"

Message(op, angle) ==
    CASE op = "merge_pdfs" -> <<"PDFs merged successfully">>
      [] op = "split_pdf" -> <<"PDF split successfully">>
      [] op = "extract_pages" -> <<"Pages extracted successfully">>
      [] op = "rotate_pdf" -> <<"PDF rotated ", AngleText(angle), " degrees successfully">>
      [] op = "compress_pdf" -> <<"PDF compressed successfully">>
      [] op = "protect_pdf" -> <<"PDF protected with password successfully">>
      [] op = "unlock_pdf" -> <<"PDF unlocked successfully">>
      [] op = "jpg_to_pdf" -> <<"Images converted to PDF successfully">>
      [] op = "pdf_to_jpg" -> <<"PDF converted to images successfully">>
      [] op = "add_watermark" -> <<"Watermark added successfully">>
      [] op = "organize_pdf" -> <<"PDF pages reorganized successfully">>
      [] op = "remove_pages" -> <<"Pages removed successfully">>
      [] op = "optimize_pdf" -> <<"PDF optimized successfully">>
      [] op = "repair_pdf" -> <<"PDF repaired successfully">>
      [] op = "ocr_pdf" -> <<"OCR processing completed successfully">>
      [] op = "add_page_numbers" -> <<"Page numbers added successfully">>
      [] op = "crop_pdf" -> <<"PDF cropped successfully">>
      [] op = "word_to_pdf" -> <<"Word document converted to PDF successfully">>
      [] op = "excel_to_pdf" -> <<"Excel file converted to PDF successfully">>
      [] op = "powerpoint_to_pdf" -> <<"PowerPoint converted to PDF successfully">>
      [] op = "html_to_pdf" -> <<"HTML converted to PDF successfully">>
      [] op = "pdf_to_pdfa" -> <<"PDF converted to PDF/A successfully">>
      [] op = "sign_pdf" -> <<"PDF signed successfully">>
      [] op = "redact_pdf" -> <<"PDF redacted successfully">>
      [] op = "compare_pdfs" -> <<"PDF comparison completed successfully">>
      [] op = "create_zip" -> <<"ZIP file created successfully">>

\* the checks a handler makes before it stages anything
Validate(op, inp) ==
    IF op = "merge_pdfs" /\ Len(inp.files) < 2
    THEN HTTPException(400, <<"At least 2 PDF files required for merging">>)
    ELSE IF op \in SingleOps \cup PairOps
            /\ \E i \in 1..Len(inp.files) : ~EndsWith(inp.files[i], Accepts(op))
    THEN HTTPException(400, RejectDetail(op, inp.files[1]))
    ELSE IF op = "rotate_pdf" /\ inp.angle \notin {90, 180, 270}
    THEN HTTPException(400, <<"Angle must be 90, 180, or 270">>)
    ELSE IF op = "protect_pdf" /\ inp.text = <<>>
    THEN HTTPException(400, <<"Password is required">>)
    ELSE IF op = "add_watermark" /\ inp.text = <<>>
    THEN HTTPException(400, <<"Watermark text is required">>)
    ELSE NoExc

\* the staging of the uploads, in order: for file in files: (the extension
\* test, in merge and jpg-to-pdf), uuid4(), open(temp_path, "wb"), append.
\* Returns the staged paths, the exception that ended the loop and the
\* number of identifiers drawn.
RECURSIVE StageLoop(_, _, _, _)
StageLoop(op, files, id, acc) ==
    IF files = <<>>
    THEN [staged |-> acc, exc |-> NoExc, at |-> "none", ids |-> Len(acc)]
    ELSE LET f == Head(files)
         IN  IF op \in LoopOps /\ ~EndsWith(f, Accepts(op))
             THEN [staged |-> acc, exc |-> HTTPException(400, RejectDetail(op, f)),
                   at |-> "validation", ids |-> Len(acc)]
             ELSE IF ~Writable(f)
             THEN [staged |-> acc,
                   exc |-> Raise("FileNotFoundError", <<"No such file or directory">>),
                   at |-> "staging", ids |-> Len(acc) + 1]
             ELSE StageLoop(op, Tail(files), id + 1, Append(acc, UploadPath(id, f)))

\* a parse that reads 'a-b' as the single page a
ParseRangeFirstOnly(item) ==
    LET t     == Strip(item)
        parts == Split(t, "-")
    IN  IF IsInt(parts[1]) THEN [ok |-> TRUE, val |-> <<IntOf(parts[1]), IntOf(parts[1])>>]
        ELSE [ok |-> FALSE, val |-> <<0, 0>>]

\* one item of the split handler's pages string
ParseRange(item) ==
    LET t     == Strip(item)
        parts == Split(t, "-")
    IN  IF \E i \in 1..Len(t) : t[i] = "-"
        THEN IF Len(parts) = 2 /\ IsInt(parts[1]) /\ IsInt(parts[2])
             THEN [ok |-> TRUE, val |-> <<IntOf(parts[1]), IntOf(parts[2])>>]
             ELSE [ok |-> FALSE, val |-> <<0, 0>>]
        ELSE IF IsInt(t) THEN [ok |-> TRUE, val |-> <<IntOf(t), IntOf(t)>>]
             ELSE [ok |-> FALSE, val |-> <<0, 0>>]

\* the split handler's parsing of pages into page_ranges
ParseRanges(pages) ==
    IF Strip(pages) = <<>> THEN [ok |-> TRUE, val |-> <<>>]
    ELSE LET items == Split(pages, ",")
         IN  IF \A i \in 1..Len(items) : ParseRange(items[i]).ok
             THEN [ok |-> TRUE, val |-> [i \in 1..Len(items) |-> ParseRange(items[i]).val]]
             ELSE [ok |-> FALSE, val |-> <<>>]

\* a parse that passes over the items that are not numbers
ParseIntsSkipping(pages) ==
    LET items == SelectSeq(Split(pages, ","), IsInt)
    IN  [ok |-> TRUE, val |-> [i \in 1..Len(items) |-> IntOf(items[i])]]

\* [int(p.strip()) for p in pages.split(',')]
ParseInts(pages) ==
    LET items == Split(pages, ",")
    IN  IF \A i \in 1..Len(items) : IsInt(items[i])
        THEN [ok |-> TRUE, val |-> [i \in 1..Len(items) |-> IntOf(items[i])]]
        ELSE [ok |-> FALSE, val |-> <<>>]

\* json.loads(areas) if areas else []: whether the text is accepted.  The
\* texts considered are lists of numbers.
JsonLoads(areas) ==
    IF areas = <<>> THEN TRUE
    ELSE /\ Len(areas) >= 2
         /\ areas[1] = "[" /\ areas[Len(areas)] = "]"
         /\ LET inner == SubSeq(areas, 2, Len(areas) - 1)
            IN  Strip(inner) = <<>> \/ ParseInts(inner).ok

\* the handler's parameter parsing, after staging
Parse(op, inp) ==
    LET r == IF op = "split_pdf" THEN ParseRanges(inp.str) ELSE ParseInts(inp.str)
    IN  IF op = "redact_pdf"
        THEN [exc |-> IF JsonLoads(inp.str) THEN NoExc
                      ELSE Raise("JSONDecodeError", <<"Expecting value">>),
              ranges |-> <<>>, numbers |-> <<>>]
        ELSE IF op \notin PagesOps
        THEN [exc |-> NoExc, ranges |-> <<>>, numbers |-> <<>>]
        ELSE IF ~r.ok
        THEN [exc |-> Raise("ValueError", <<"invalid literal for int() with base 10">>),
              ranges |-> <<>>, numbers |-> <<>>]
        ELSE IF op = "split_pdf"
        THEN [exc |-> NoExc, ranges |-> r.val, numbers |-> <<>>]
        ELSE [exc |-> NoExc, ranges |-> <<>>, numbers |-> r.val]

(***************************************************************************)
(* The PDFProcessor operations, as far as the file system sees them        *)
(***************************************************************************)
WrappingOps == {"optimize_pdf", "repair_pdf", "ocr_pdf", "pdf_to_jpg",
                "word_to_pdf", "excel_to_pdf", "powerpoint_to_pdf",
                "html_to_pdf", "pdf_to_pdfa", "redact_pdf", "compare_pdfs",
                "sign_pdf"}

\* the text an operation puts before the library's message when it re-raises
WrapText(op) ==
    CASE op = "optimize_pdf"      -> "PDF optimization failed: "
      [] op = "repair_pdf"        -> "Cannot repair PDF: "
      [] op = "ocr_pdf"           -> "OCR processing failed: "
      [] op = "pdf_to_jpg"        -> "PDF to image conversion failed: "
      [] op = "word_to_pdf"       -> "Word to PDF conversion failed: "
      [] op = "excel_to_pdf"      -> "Enhanced Excel to PDF conversion failed: "
      [] op = "powerpoint_to_pdf" -> "PowerPoint to PDF conversion failed: "
      [] op = "html_to_pdf"       -> "HTML to PDF conversion failed: "
      [] op = "pdf_to_pdfa"       -> "PDF/A conversion failed: "
      [] op = "redact_pdf"        -> "PDF redaction failed: "
      [] op = "compare_pdfs"      -> "PDF comparison failed: "
      [] op = "sign_pdf"          -> "PDF signing failed: "

\* except Exception as e: raise Exception(f"... failed: {str(e)}"), in the
\* operations that have the clause; the others let the exception through
Reraise(op, e) ==
    IF op \in WrappingOps THEN Raise("Exception", <<WrapText(op)>> \o Str(e)) ELSE e

LibraryError == Raise("PdfReadError", <<"library error">>)
MissingError == Raise("FileNotFoundError", <<"No such file or directory">>)

WriteError == Raise("OSError", <<"No space left on device">>)

Min(a, b) == IF a <= b THEN a ELSE b

Max(a, b) == IF a >= b THEN a ELSE b

\* range(a, b), as the sequence of its values
PyRange(a, b) == [k \in 1..Max(b - a, 0) |-> a + k - 1]

\* reader.pages of the i-th input of a call, a document of n pages; a page
\* is known by the input it comes from and its number there
Doc(i, n) == [k \in 1..n |-> [doc |-> i, no |-> k]]

\* writer.add_page(reader.pages[idx]) for idx in idxs (0-based)
PagesAt(reader, idxs) == [k \in 1..Len(idxs) |-> reader[idxs[k] + 1]]

\* an operation that writes one output_path: how the call ends.  The pages
\* of the output are not followed for these operations.
OneOutput(op, out, sc) ==
    CASE sc = "ok"         -> [exc |-> NoExc, writes |-> <<out>>, result |-> <<out>>,
                               pages |-> <<>>]
      [] sc = "fail_early" -> [exc |-> Reraise(op, LibraryError), writes |-> <<>>,
                               result |-> <<>>, pages |-> <<>>]
      [] sc = "fail_write" -> [exc |-> Reraise(op, LibraryError), writes |-> <<out>>,
                               result |-> <<>>, pages |-> <<>>]

\* a merger that puts each input before the ones it already holds
RECURSIVE Prepended(_, _)
Prepended(docs, i) ==
    IF i > Len(docs) THEN <<>> ELSE Prepended(docs, i + 1) \o Doc(i, docs[i].n)

\* merger.append(file) for every input, in order
RECURSIVE Appended(_, _)
Appended(docs, i) ==
    IF i > Len(docs) THEN <<>> ELSE Doc(i, docs[i].n) \o Appended(docs, i + 1)

\* a merge that writes what it has appended when an input fails
merge_pdfs_partial(input_paths, output_path, docs, sc) ==
    IF \E i \in 1..Len(docs) : ~docs[i].ok
    THEN [exc |-> LibraryError, writes |-> <<output_path>>, result |-> <<>>,
          pages |-> <<>>]
    ELSE [exc |-> NoExc, writes |-> <<output_path>>, result |-> <<output_path>>,
          pages |-> <<Appended(docs, 1)>>]

\* PDFProcessor.merge_pdfs: the inputs are appended, then merger.write; an
\* input that cannot be read ends the call before the output is opened
merge_pdfs(input_paths, output_path, docs, sc) ==
    IF \E i \in 1..Len(docs) : ~docs[i].ok
    THEN [exc |-> LibraryError, writes |-> <<>>, result |-> <<>>, pages |-> <<>>]
    ELSE IF sc = "fail_write"
    THEN [exc |-> WriteError, writes |-> <<output_path>>, result |-> <<>>,
          pages |-> <<>>]
    ELSE [exc |-> NoExc, writes |-> <<output_path>>, result |-> <<output_path>>,
          pages |-> <<Appended(docs, 1)>>]

\* the pages extract_pages and organize_pdf add: for page_num in the list,
\* page_idx = page_num - 1, added if 0 <= page_idx < len(reader.pages)
RECURSIVE PickPages(_, _)
PickPages(reader, page_numbers) ==
    IF page_numbers = <<>> THEN <<>>
    ELSE LET page_idx == Head(page_numbers) - 1
         IN  (IF 0 <= page_idx /\ page_idx < Len(reader)
              THEN <<reader[page_idx + 1]>> ELSE <<>>)
             \o PickPages(reader, Tail(page_numbers))

\* a call that writes one output whose pages are followed
PickOutput(pages, out, sc) ==
    CASE sc = "ok"         -> [exc |-> NoExc, writes |-> <<out>>, result |-> <<out>>,
                               pages |-> <<pages>>]
      [] sc = "fail_early" -> [exc |-> LibraryError, writes |-> <<>>, result |-> <<>>,
                               pages |-> <<>>]
      [] sc = "fail_write" -> [exc |-> LibraryError, writes |-> <<out>>, result |-> <<>>,
                               pages |-> <<>>]

\* an extraction that writes every page once, in document order
extract_pages_sorted(reader, page_numbers, output_path, sc) ==
    PickOutput(SelectSeq(reader, LAMBDA pg :
                   \E k \in 1..Len(page_numbers) : page_numbers[k] = pg.no),
               output_path, sc)

\* PDFProcessor.extract_pages
extract_pages(reader, page_numbers, output_path, sc) ==
    PickOutput(PickPages(reader, page_numbers), output_path, sc)

\* a reordering that appends the pages the order does not name
organize_pdf_keeping(reader, page_order, output_path, sc) ==
    PickOutput(PickPages(reader, page_order)
                 \o SelectSeq(reader, LAMBDA pg :
                        \A k \in 1..Len(page_order) : page_order[k] # pg.no),
               output_path, sc)

\* PDFProcessor.organize_pdf
organize_pdf(reader, page_order, output_path, sc) ==
    PickOutput(PickPages(reader, page_order), output_path, sc)

\* a document as the operations that follow the content see it: its pages,
\* the /Rotate entry of each page, and its user password (<<>> for none)
NoDoc == [pages |-> <<>>, rot |-> <<>>, key |-> <<>>]

\* the one-page, unrotated, unprotected document
PlainDoc == [pages |-> Doc(1, 1), rot |-> <<0>>, key |-> <<>>]

\* a call that ends without an output document
NoOutput(e, writes) ==
    [exc |-> e, writes |-> writes, result |-> <<>>, pages |-> <<>>, doc |-> NoDoc,
     tried |-> <<>>]

\* a rotation that sets /Rotate to the angle, whatever it was
rotate_pdf_absolute(doc, angle, output_path, sc) ==
    IF doc.key # <<>> \/ sc = "fail_early" THEN NoOutput(LibraryError, <<>>)
    ELSE IF sc = "fail_write" THEN NoOutput(LibraryError, <<output_path>>)
    ELSE [exc |-> NoExc, writes |-> <<output_path>>, result |-> <<output_path>>,
          pages |-> <<doc.pages>>,
          doc |-> [doc EXCEPT !.rot = [k \in 1..Len(doc.rot) |-> angle]],
          tried |-> <<>>]

\* PDFProcessor.rotate_pdf: for page in reader.pages: page.rotate(angle),
\* which adds angle to the page's /Rotate; writer.add_page; writer.write.
\* The pages of a document that is encrypted cannot be read.
rotate_pdf(doc, angle, output_path, sc) ==
    IF doc.key # <<>> \/ sc = "fail_early" THEN NoOutput(LibraryError, <<>>)
    ELSE IF sc = "fail_write" THEN NoOutput(LibraryError, <<output_path>>)
    ELSE [exc |-> NoExc, writes |-> <<output_path>>, result |-> <<output_path>>,
          pages |-> <<doc.pages>>,
          doc |-> [doc EXCEPT !.rot = [k \in 1..Len(doc.rot) |-> doc.rot[k] + angle]],
          tried |-> <<>>]

\* the libraries of the two strategies, in the order they are tried
Primary == "pikepdf"
Secondary == "PyPDF2"

\* the end of a call that wrote output_path with the document doc
Written(output_path, doc, tried) ==
    [exc |-> NoExc, writes |-> <<output_path>>, result |-> <<output_path>>,
     pages |-> <<doc.pages>>, doc |-> doc, tried |-> tried]

\* the end of a call whose last strategy raised; the strategy had opened
\* output_path or not
Raised(e, output_path, opened, tried) ==
    [exc |-> e, writes |-> IF opened THEN <<output_path>> ELSE <<>>, result |-> <<>>,
     pages |-> <<>>, doc |-> NoDoc, tried |-> tried]

\* the except branch of the operations that fall back to PyPDF2: the pages
\* are read (which raises for an encrypted document that is not decrypted),
\* added to a writer, and the writer is written to output_path
Fallback(readable, output_path, doc, alt) ==
    IF ~readable \/ alt = "fail_early"
    THEN Raised(LibraryError, output_path, FALSE, <<Primary, Secondary>>)
    ELSE IF alt = "fail_write"
    THEN Raised(LibraryError, output_path, TRUE, <<Primary, Secondary>>)
    ELSE Written(output_path, doc, <<Primary, Secondary>>)

\* a compression that lets the exception of pikepdf leave the call
compress_pdf_no_fallback(doc, output_path, sc, alt) ==
    IF sc = "ok" THEN Written(output_path, doc, <<Primary>>)
    ELSE Raised(LibraryError, output_path, FALSE, <<Primary>>)

\* PDFProcessor.compress_pdf: pikepdf's save, and on any exception the
\* per-page compression of PyPDF2
compress_pdf(doc, output_path, sc, alt) ==
    IF sc = "ok" THEN Written(output_path, doc, <<Primary>>)
    ELSE Fallback(TRUE, output_path, doc, alt)

\* PDFProcessor.optimize_pdf: pikepdf only; an exception is raised again
\* with the operation's text before it
optimize_pdf(doc, output_path, sc) ==
    IF sc = "ok" THEN Written(output_path, doc, <<Primary>>)
    ELSE Raised(Reraise("optimize_pdf", LibraryError), output_path, sc = "fail_write",
                <<Primary>>)

\* a protection whose output has the first page only
protect_pdf_first_page(doc, password, output_path, sc, alt) ==
    LET first == [pages |-> SubSeq(doc.pages, 1, 1), rot |-> SubSeq(doc.rot, 1, 1),
                  key |-> password]
    IN  IF sc = "ok" /\ doc.key = <<>> THEN Written(output_path, first, <<Primary>>)
        ELSE Fallback(doc.key = <<>>, output_path, first, alt)

\* PDFProcessor.protect_pdf: pikepdf opens the input without a password
\* (which raises for a document that has one) and saves it encrypted with
\* password; on any exception PyPDF2 copies the pages and encrypts
protect_pdf(doc, password, output_path, sc, alt) ==
    LET protected == [doc EXCEPT !.key = password]
    IN  IF sc = "ok" /\ doc.key = <<>> THEN Written(output_path, protected, <<Primary>>)
        ELSE Fallback(doc.key = <<>>, output_path, protected, alt)

\* an unlock whose fallback copies the pages whatever reader.decrypt returned
unlock_pdf_lenient(doc, password, output_path, sc, alt) ==
    LET unlocked == [doc EXCEPT !.key = <<>>]
        opens    == doc.key = <<>> \/ doc.key = password
    IN  IF sc = "ok" /\ opens THEN Written(output_path, unlocked, <<Primary>>)
        ELSE Fallback(TRUE, output_path, unlocked, alt)

\* PDFProcessor.unlock_pdf: pikepdf opens the input with password (which
\* raises when the document has another one) and saves it unencrypted; on
\* any exception PyPDF2 decrypts with password, whose result is not looked
\* at, and copies the pages, which raises when the password did not match
unlock_pdf(doc, password, output_path, sc, alt) ==
    LET unlocked == [doc EXCEPT !.key = <<>>]
        opens    == doc.key = <<>> \/ doc.key = password
    IN  IF sc = "ok" /\ opens THEN Written(output_path, unlocked, <<Primary>>)
        ELSE Fallback(opens, output_path, unlocked, alt)

\* the comparison of a request that made none
NoReport == [rows |-> <<>>, total |-> 0, identical |-> 0, different |-> 0, missing |-> 0]

\* a comparison of the page texts as they are, blanks at the ends included
ComparePageExact(text1_pages, text2_pages, i) ==
    LET text1 == IF i < Len(text1_pages) THEN text1_pages[i + 1] ELSE <<>>
        text2 == IF i < Len(text2_pages) THEN text2_pages[i + 1] ELSE <<>>
    IN  IF i >= Len(text1_pages) \/ i >= Len(text2_pages)
        THEN [status |-> "MISSING PAGE", similarity |-> FALSE]
        ELSE IF text1 = text2 THEN [status |-> "IDENTICAL", similarity |-> FALSE]
        ELSE [status |-> "DIFFERENT", similarity |-> text1 # <<>> /\ text2 # <<>>]

\* the body of compare_pdfs' loop for the 0-based page index i: the status
\* of the page pair, and whether a similarity ratio is added to it
ComparePage(text1_pages, text2_pages, i) ==
    LET text1 == IF i < Len(text1_pages) THEN text1_pages[i + 1] ELSE <<>>
        text2 == IF i < Len(text2_pages) THEN text2_pages[i + 1] ELSE <<>>
        text1_exists == ~(i >= Len(text1_pages))
        text2_exists == ~(i >= Len(text2_pages))
    IN  IF ~text1_exists \/ ~text2_exists
        THEN [status |-> "MISSING PAGE", similarity |-> FALSE]
        ELSE IF Strip(text1) = Strip(text2)
        THEN [status |-> "IDENTICAL", similarity |-> FALSE]
        ELSE [status |-> "DIFFERENT",
              similarity |-> /\ text1_exists /\ text2_exists
                             /\ Strip(text1) # <<>> /\ Strip(text2) # <<>>]

\* PDFProcessor.compare_pdfs: the page texts of both inputs are compared
\* index by index up to the longer input, and the counts are summed up
compare_pdfs(texts, output_path, sc) ==
    LET text1_pages == texts[1]
        text2_pages == texts[2]
        max_pages   == Max(Len(text1_pages), Len(text2_pages))
        rows        == [k \in 1..max_pages |-> ComparePage(text1_pages, text2_pages, k - 1)]
        identical_count   == Cardinality({k \in 1..max_pages : rows[k].status = "IDENTICAL"})
        differences_count == Cardinality({k \in 1..max_pages : rows[k].status = "DIFFERENT"})
        total_pages == max_pages
        e           == Reraise("compare_pdfs", LibraryError)
    IN  IF sc = "ok"
        THEN [exc |-> NoExc, writes |-> <<output_path>>, result |-> <<output_path>>,
              pages |-> <<>>, doc |-> NoDoc, tried |-> <<>>,
              report |-> [rows |-> rows, total |-> total_pages,
                          identical |-> identical_count, different |-> differences_count,
                          missing |-> total_pages - identical_count - differences_count]]
        ELSE [exc |-> e, writes |-> IF sc = "fail_write" THEN <<output_path>> ELSE <<>>,
              result |-> <<>>, pages |-> <<>>, doc |-> NoDoc, tried |-> <<>>,
              report |-> NoReport]

\* str.split() without a separator: the words between runs of blanks
RECURSIVE PyWords(_)
PyWords(s) ==
    IF s = <<>> THEN <<>>
    ELSE IF Head(s) = " " THEN PyWords(Tail(s))
    ELSE LET blanks == {k \in 1..Len(s) : s[k] = " "}
             n      == IF blanks = {} THEN Len(s) + 1
                       ELSE CHOOSE k \in blanks : \A j \in blanks : k <= j
         IN  <<SubSeq(s, 1, n - 1)>> \o PyWords(SubSeq(s, n, Len(s)))

\* the character budget of a cell's line, and the characters kept of a
\* long single word
WrapBudget == 30
KeptChars == 27

\* the markup of a line break; it is one element of a wrapped text
Br == "<br/>"

\* for word in words: ... of excel_to_pdf, then the last line is added
RECURSIVE WrapWords(_, _, _)
WrapWords(words, wrapped_text, current_line) ==
    IF words = <<>>
    THEN IF current_line # <<>> THEN wrapped_text \o current_line ELSE wrapped_text
    ELSE LET word == Head(words)
         IN  IF Len(current_line \o <<" ">> \o word) <= WrapBudget
             THEN WrapWords(Tail(words), wrapped_text,
                            IF current_line # <<>> THEN current_line \o <<" ">> \o word
                            ELSE word)
             ELSE WrapWords(Tail(words), wrapped_text \o current_line \o <<Br>>, word)

\* the wrapping of one cell's text in excel_to_pdf
WrapCell(cell_str) ==
    IF Len(cell_str) > WrapBudget
    THEN LET words == PyWords(cell_str)
         IN  IF Len(words) > 1 THEN WrapWords(words, <<>>, <<>>)
             ELSE SubSeq(cell_str, 1, KeptChars) \o <<".", ".", ".">>
    ELSE cell_str

\* PDFProcessor.excel_to_pdf, for a workbook of one cell: the text of the
\* cell as it is laid out
excel_to_pdf(cell_str, output_path, sc) ==
    LET e == Reraise("excel_to_pdf", LibraryError)
    IN  IF sc = "ok"
        THEN [exc |-> NoExc, writes |-> <<output_path>>, result |-> <<output_path>>,
              pages |-> <<>>, doc |-> NoDoc, tried |-> <<>>, wrapped |-> WrapCell(cell_str)]
        ELSE [exc |-> e, writes |-> IF sc = "fail_write" THEN <<output_path>> ELSE <<>>,
              result |-> <<>>, pages |-> <<>>, doc |-> NoDoc, tried |-> <<>>,
              wrapped |-> <<>>]

\* a removal that reads the list as 0-based indexes
remove_pages_zero_based(reader, pages_to_remove, output_path, sc) ==
    PickOutput(SelectSeq(reader, LAMBDA pg :
                   \A k \in 1..Len(pages_to_remove) : pages_to_remove[k] # pg.no - 1),
               output_path, sc)

\* PDFProcessor.remove_pages: pages_to_keep = [i for i in range(1,
\* total_pages + 1) if i not in pages_to_remove], added in that order
remove_pages(reader, pages_to_remove, output_path, sc) ==
    LET total_pages   == Len(reader)
        pages_to_keep == SelectSeq(PyRange(1, total_pages + 1), LAMBDA i :
                             \A k \in 1..Len(pages_to_remove) : pages_to_remove[k] # i)
    IN  PickOutput(PagesAt(reader, [k \in 1..Len(pages_to_keep) |-> pages_to_keep[k] - 1]),
                   output_path, sc)

\* a split that writes one output when it is given no ranges
SplitOutputsWhole(input, ranges, n) ==
    LET page_ranges == IF ranges = <<>> THEN <<(<<1, n>>)>> ELSE ranges
    IN  [i \in 1..Len(page_ranges) |-> SplitPath(i, input)]

\* PDFProcessor.split_pdf: one output per range, or per page without ranges
SplitOutputs(input, ranges, n) ==
    LET page_ranges == IF ranges = <<>> THEN [i \in 1..n |-> <<i, i>>] ELSE ranges
    IN  [i \in 1..Len(page_ranges) |-> SplitPath(i, input)]

\* a split that takes the pages after the range's end as well
SplitPagesToEnd(reader, ranges) ==
    LET total_pages == Len(reader)
        page_ranges == IF ranges = <<>> THEN [i \in 1..total_pages |-> <<i, i>>]
                       ELSE ranges
    IN  [i \in 1..Len(page_ranges) |->
            PagesAt(reader, PyRange(Max(0, page_ranges[i][1] - 1), total_pages))]

\* the pages split_pdf adds to the writer of each output: start_idx =
\* max(0, start - 1), end_idx = min(total_pages, end), range(start_idx, end_idx)
SplitPages(reader, ranges) ==
    LET total_pages == Len(reader)
        page_ranges == IF ranges = <<>> THEN [i \in 1..total_pages |-> <<i, i>>]
                       ELSE ranges
    IN  [i \in 1..Len(page_ranges) |->
            PagesAt(reader, PyRange(Max(0, page_ranges[i][1] - 1),
                                    Min(total_pages, page_ranges[i][2])))]

split_pdf(input, ranges, n, sc) ==
    LET outs  == SplitOutputs(input, ranges, n)
        pages == SplitPages(Doc(1, n), ranges)
    IN  CASE sc = "ok"         -> [exc |-> NoExc, writes |-> outs, result |-> outs,
                                   pages |-> pages]
          [] sc = "fail_early" -> [exc |-> LibraryError, writes |-> <<>>, result |-> <<>>,
                                   pages |-> <<>>]
          [] sc = "fail_write" -> [exc |-> LibraryError, writes |-> outs, result |-> <<>>,
                                   pages |-> <<>>]

\* PDFProcessor.pdf_to_images: the renderers in the order they are tried.
\* sc.primary: pdf2image ends "ok", with "import_error", or fails ("fail")
\* after saving sc.k pages; sc.fitz is "missing" (ImportError), "ok" or
\* "fail"; sc.pillow and sc.last are "ok" or "fail".  output_files is one
\* list, appended to by every renderer that runs.
pdf_to_images(input, n, sc) ==
    LET pages   == [i \in 1..n |-> ImagePath(input, i)]
        partial == SubSeq(pages, 1, sc.k)
        failed  == Reraise("pdf_to_jpg", LibraryError)
    IN  IF sc.primary = "ok"
        THEN [exc |-> NoExc, writes |-> pages, result |-> pages, pages |-> <<>>]
        ELSE IF sc.primary = "import_error"
        THEN [exc |-> Reraise("pdf_to_jpg",
                        Raise("Exception",
                          <<"pdf2image library is required but not properly installed">>)),
              writes |-> <<>>, result |-> <<>>, pages |-> <<>>]
        ELSE IF sc.fitz = "ok"
        THEN [exc |-> NoExc, writes |-> partial \o pages, result |-> partial \o pages, pages |-> <<>>]
        ELSE IF sc.fitz = "fail"
        THEN [exc |-> failed, writes |-> partial, result |-> <<>>, pages |-> <<>>]
        ELSE IF sc.pillow = "ok"
        THEN [exc |-> NoExc, writes |-> partial \o pages, result |-> partial \o pages, pages |-> <<>>]
        ELSE IF sc.last = "ok"
        THEN [exc |-> NoExc, writes |-> partial \o pages, result |-> partial \o pages, pages |-> <<>>]
        ELSE [exc |-> failed, writes |-> partial, result |-> <<>>, pages |-> <<>>]

ImageScenarios(n) ==
    [primary : {"ok", "import_error", "fail"}, k : 0..(n - 1),
     fitz : {"missing", "ok", "fail"}, pillow : {"ok", "fail"}, last : {"ok", "fail"}]

Scenarios == {"ok", "fail_early", "fail_write"}

NoImageScenario ==
    [primary |-> "ok", k |-> 0, fitz |-> "missing", pillow |-> "fail", last |-> "fail"]

\* the operations whose output pages are followed
LongDoc == 5      \* pages of the long document given to remove-pages
PageOps == {"merge_pdfs", "split_pdf", "extract_pages", "organize_pdf",
            "remove_pages"}

\* the outcomes considered for each operation
\* the page counts of the uploads considered for each operation
PageCounts(op) ==
    IF op = "remove_pages" THEN 1..MaxPages \cup {LongDoc}
    ELSE IF op \in ListOps \cup PageOps THEN 1..MaxPages ELSE {1}
\* the operations that fall back to a second library
FallbackOps == {"compress_pdf", "protect_pdf", "unlock_pdf"}

\* the operations whose strategies are followed
StrategyOps == FallbackOps \cup {"optimize_pdf"}

\* sc is the outcome of the operation's library, the primary one where
\* there are two; pikepdf raises before it has opened the output
ScenariosOf(op) ==
    IF op = "pdf_to_jpg" THEN {"ok"}
    ELSE IF op = "merge_pdfs" THEN {"ok", "fail_write"}
    ELSE IF op \in FallbackOps THEN {"ok", "fail_early"}
    ELSE Scenarios

\* alt is the outcome of the secondary library, if it is tried
AltScenariosOf(op) == IF op \in FallbackOps THEN Scenarios ELSE {"none"}
ImageScenariosOf(op, n) ==
    IF op = "pdf_to_jpg" THEN ImageScenarios(n) ELSE {NoImageScenario}

\* the uploaded documents as the operation finds them when it reads them:
\* readable with n pages, or (an input of merge) not readable
DocChoices(op) ==
    {[ok |-> TRUE, n |-> k] : k \in PageCounts(op)}
        \cup (IF op = "merge_pdfs" THEN {[ok |-> FALSE, n |-> 0]} ELSE {})

DocLists(op, k) == [1..k -> DocChoices(op)]

\* the operations whose input and output documents are followed
ContentOps == {"rotate_pdf", "protect_pdf", "unlock_pdf"}

\* the one PDFProcessor call of a handler: pdf_processor.<operation>(...);
\* par holds the handler's other arguments and the uploaded document
Facade(op, staged, ranges, numbers, out, files, docs, sc, isc, par) ==
    IF \E i \in 1..Len(staged) : staged[i] \notin DOMAIN files
    THEN Raised(Reraise(op, MissingError), out, FALSE,
                IF op \in FallbackOps THEN <<Primary, Secondary>>
                ELSE IF op \in StrategyOps THEN <<Primary>> ELSE <<>>)
    ELSE IF op = "split_pdf" THEN split_pdf(staged[1], ranges, docs[1].n, sc)
    ELSE IF op = "pdf_to_jpg" THEN pdf_to_images(staged[1], docs[1].n, isc)
    ELSE IF op = "merge_pdfs" THEN merge_pdfs(staged, out, docs, sc)
    ELSE IF op = "extract_pages"
    THEN extract_pages(Doc(1, docs[1].n), numbers, out, sc)
    ELSE IF op = "organize_pdf"
    THEN organize_pdf(Doc(1, docs[1].n), numbers, out, sc)
    ELSE IF op = "remove_pages"
    THEN remove_pages(Doc(1, docs[1].n), numbers, out, sc)
    ELSE IF op = "rotate_pdf" THEN rotate_pdf(par.doc, par.angle, out, sc)
    ELSE IF op = "compare_pdfs" THEN compare_pdfs(par.texts, out, sc)
    ELSE IF op = "excel_to_pdf" THEN excel_to_pdf(par.str, out, sc)
    ELSE IF op = "compress_pdf" THEN compress_pdf(PlainDoc, out, sc, par.alt)
    ELSE IF op = "optimize_pdf" THEN optimize_pdf(PlainDoc, out, sc)
    ELSE IF op = "protect_pdf" THEN protect_pdf(par.doc, par.text, out, sc, par.alt)
    ELSE IF op = "unlock_pdf" THEN unlock_pdf(par.doc, par.text, out, sc, par.alt)
    ELSE OneOutput(op, out, sc)

(***************************************************************************)
(* Requests: the inputs considered                                         *)
(***************************************************************************)
FileChoices(op) ==
    CASE op = "jpg_to_pdf"        -> {N_jpg, N_pdf}
      [] op = "word_to_pdf"       -> {N_docx, N_pdf}
      [] op = "excel_to_pdf"      -> {N_xlsx, N_pdf}
      [] op = "powerpoint_to_pdf" -> {N_pptx, N_pdf}
      [] op = "merge_pdfs"        -> {N_pdf, N_txt}
      [] op = "compare_pdfs"      -> {N_pdf, N_txt}
      [] OTHER                    -> {N_pdf, N_PDF, N_txt, N_slash}

FileLists(op) ==
    CASE op \in LoopOps   -> UNION {[1..k -> FileChoices(op)] : k \in 1..MaxFiles}
      [] op \in SingleOps -> [1..1 -> FileChoices(op)]
      [] op \in PairOps   -> [1..2 -> FileChoices(op)]
      [] OTHER            -> {<<>>}

AngleChoices(op) == IF op = "rotate_pdf" THEN {90, 270, 45} ELSE {0}

TextChoices(op) ==
    IF op \in {"protect_pdf", "add_watermark"} THEN {<<>>, <<"s">>} ELSE {<<>>}

StrChoices(op) ==
    CASE op \in PagesOps    -> {<<>>, <<"1", "-", "2">>, <<"2", ",", " ", "1">>, <<"x">>}
      [] op = "redact_pdf"  -> {<<>>, <<"[", "1", "]">>, <<"[">>}
      [] OTHER              -> {<<>>}

\* the page texts of two one-page documents without text
BlankTexts == <<(<<(<<>>)>>), (<<(<<>>)>>)>>

Inputs(op) ==
    [files : FileLists(op), angle : AngleChoices(op), text : TextChoices(op),
     str : StrChoices(op), doc : {PlainDoc}, texts : {BlankTexts}]

\* sep.join(items)
RECURSIVE Join(_, _)
Join(items, sep) ==
    IF Len(items) = 1 THEN items[1]
    ELSE items[1] \o <<sep>> \o Join(Tail(items), sep)

\* the items a pages field of the split form is made of
RangeItems ==
    {<<"1", "-", "3">>, <<"5">>, <<"7", "-", "8">>, <<" ", "2", " ">>,
     <<" ", "1", "-", "2">>, <<"2", "-", "1">>, <<"0", "-", "1">>,
     <<"1", "0">>, <<"1">>}

\* the items a pages or page_order field of the other forms is made of
NumberItems == {<<"1">>, <<"2">>, <<" ", "3">>, <<"0">>, <<"-", "1">>, <<"1", "0">>}

\* the pages fields considered for the operations whose pages are followed
PageStrings(op) ==
    LET items == IF op = "split_pdf" THEN RangeItems
                 ELSE IF op = "remove_pages" THEN NumberItems \cup {<<"4">>}
                 ELSE NumberItems
        lists == UNION {[1..k -> items] : k \in 1..MaxItems}
    IN  IF op = "merge_pdfs" THEN {<<>>}
        ELSE {Join(l, ",") : l \in lists}
               \cup (IF op = "split_pdf" THEN {<<>>, <<" ">>, <<" ", " ">>} ELSE {})

PageInputs(op) ==
    [files : IF op = "merge_pdfs" THEN FileLists(op) ELSE {<<N_pdf>>},
     angle : {0}, text : {<<>>}, str : PageStrings(op), doc : {PlainDoc},
     texts : {BlankTexts}]

\* the passwords of the forms
Passwords == {<<"p0">>, <<"p1">>}

\* the documents a client uploads to the operations that follow the
\* content: 1..MaxPages pages, the k-th turned by 90 (k - 1) degrees, with
\* or without a password
UploadedDocs ==
    {[pages |-> Doc(1, n), rot |-> [k \in 1..n |-> 90 * (k - 1)], key |-> key] :
        n \in 1..MaxPages, key \in {<<>>, <<"p0">>}}

ChainInputs(op) ==
    [files : {<<N_pdf>>}, angle : AngleChoices(op),
     text : IF op \in {"protect_pdf", "unlock_pdf"} THEN Passwords \cup {<<>>}
            ELSE {<<>>},
     str : {<<>>}, doc : UploadedDocs, texts : {BlankTexts}]

\* the texts page.extract_text() or '' gives for the pages considered
PageTexts == {<<>>, <<" ">>, <<"a">>, <<"a", " ">>, <<" ", "a">>, <<"b">>}

\* the page texts of the documents given to compare: up to MaxPages pages
TextDocs == UNION {[1..n -> PageTexts] : n \in 0..MaxPages}

\* the lengths of the words of a cell, around half the budget and around
\* the budget
WordLens == {1, 14, 15, 16, 30, 31}

Letters == <<"a", "b", "c", "d", "e">>

\* the texts of the cell of the uploaded workbook: up to MaxItems words, the
\* k-th made of the k-th letter, with one blank between them, or one word
\* after a blank
CellTexts ==
    LET Word(k, n) == [i \in 1..n |-> Letters[k]]
        lists == UNION {[1..k -> WordLens] : k \in 1..MaxItems}
    IN  {Join([k \in 1..Len(l) |-> Word(k, l[k])], " ") : l \in lists}
            \cup {<<" ">> \o Word(1, n) : n \in WordLens}

CellInputs(op) ==
    [files : {<<N_xlsx>>}, angle : {0}, text : {<<>>}, str : CellTexts,
     doc : {PlainDoc}, texts : {BlankTexts}]

\* the operations whose handler parses a form field after staging
ParsingOps == PagesOps \cup {"redact_pdf"}

\* pages, page_order and areas fields that parse and that do not
ParseStrings(op) ==
    CASE op = "split_pdf"  -> {<<"x">>, <<"1", "-", "2", "-", "3">>, <<"-", "1">>,
                               <<"1", ",", "x">>, <<"1", "-", "2">>, <<"2">>}
      [] op = "redact_pdf" -> {<<>>, <<"[", "1", "]">>, <<"[">>, <<"x">>}
      [] OTHER             -> {<<"x">>, <<"1", "-", "2", "-", "3">>, <<"-", "1">>,
                               <<"1", ",", "x">>, <<"2">>, <<>>}

ParseInputs(op) ==
    [files : {<<N_pdf>>, <<N_txt>>}, angle : {0}, text : {<<>>}, str : ParseStrings(op),
     doc : {PlainDoc}, texts : {BlankTexts}]

CompareInputs(op) ==
    [files : {<<N_pdf, N_pdf>>}, angle : {0}, text : {<<>>}, str : {<<>>},
     doc : {PlainDoc}, texts : {<<t1, t2>> : t1 \in TextDocs, t2 \in TextDocs}]

\* texts: the page texts of the two uploads and report: the comparison, of
\* a request to compare; str: the text of the cell and wrapped: the text
\* laid out, of a request to convert a workbook;
\* chained: the upload is the output of the client's request before; doc:
\* the uploaded document and out: the output document, where the content is
\* followed; trail: the client's requests before this one
IdleRequest ==
    [pc |-> "idle", op |-> "none", staged |-> <<>>, str |-> <<>>, ranges |-> <<>>,
     numbers |-> <<>>, angle |-> 0, text |-> <<>>, docs |-> <<>>, sc |-> "none",
     alt |-> "none", tried |-> <<>>, result |-> <<>>,
     pages |-> <<>>, calls |-> 0, exc |-> NoExc, at |-> "none",
     resp |-> NoResponse, chained |-> FALSE, doc |-> NoDoc, out |-> NoDoc,
     trail |-> <<>>, texts |-> <<>>, report |-> NoReport, wrapped |-> <<>>]

(***************************************************************************)
(* Initial state: the zones exist and hold their placeholder; outputs/     *)
(* has a subdirectory; static/ holds the page served at "/".               *)
(***************************************************************************)
InitialFiles ==
    LET paths == {PlainPath("uploads", GitKeep), PlainPath("outputs", GitKeep),
                  PlainPath("outputs", <<"archive">>),
                  PlainPath("static", <<"index", ".html">>)}
    IN  [p \in paths |-> [isdir |-> p.name = <<"archive">>, mtime |-> 0]]

NoPath == PlainPath("", <<>>)

IdleSweep ==
    [pc |-> "idle", max_age_hours |-> 0, current_time |-> 0, max_age_seconds |-> 0,
     dirs |-> <<>>, listing |-> {}, deleted_count |-> 0, examined |-> {}, runs |-> 0]

NoDownload ==
    [path |-> NoPath, exists |-> FALSE, status |-> 0, detail |-> <<>>,
     media_type |-> "", file |-> NoPath]

Init ==
    /\ fs = InitialFiles
    /\ created = [p \in {} |-> 0]
    /\ nextId = 1
    /\ now = 0
    /\ ticks = 0
    /\ req = [r \in Reqs |-> IdleRequest]
    /\ sweep = IdleSweep
    /\ swept = {}
    /\ dl = NoDownload

(***************************************************************************)
(* A POST handler, in three steps: up to the PDFProcessor call, the call,  *)
(* and from the call to the response.                                      *)
(***************************************************************************)
\* the request ends in the handler's except clause
Failed(rq, e, at) == [rq EXCEPT !.pc = "done", !.exc = e, !.at = at, !.resp = ErrorResponse(e)]

\* validation, staging and parameter parsing of request r, for a route of
\* ops and the form fields of fields(op)
StageWith(r, ops, fields) ==
    /\ req[r].pc = "idle"
    /\ \E op \in ops : \E inp \in fields[op] :
         LET v   == Validate(op, inp)
             st  == StageLoop(op, inp.files, nextId, <<>>)
             ids == IF op \in PairOps THEN 2 ELSE st.ids
             pr  == Parse(op, inp)
             rq  == [req[r] EXCEPT !.op = op, !.angle = inp.angle, !.str = inp.str,
                                   !.text = inp.text,
                                   !.texts = IF op = "compare_pdfs" THEN inp.texts ELSE <<>>,
                                   !.doc = IF op \notin ContentOps THEN NoDoc
                                           ELSE IF req[r].chained THEN @ ELSE inp.doc]
         IN  IF v # NoExc
             THEN /\ req' = [req EXCEPT ![r] = Failed(rq, v, "validation")]
                  /\ UNCHANGED <<fs, created, nextId>>
             ELSE /\ fs' = WriteAll(fs, st.staged, now)
                  /\ created' = LogCreated(created, st.staged)
                  /\ nextId' = nextId + ids
                  /\ LET rs == [rq EXCEPT !.staged = st.staged]
                     IN  req' = [req EXCEPT ![r] =
                            IF st.exc # NoExc THEN Failed(rs, st.exc, st.at)
                            ELSE IF pr.exc # NoExc THEN Failed(rs, pr.exc, "parsing")
                            ELSE [rs EXCEPT !.pc = "staged", !.ranges = pr.ranges,
                                            !.numbers = pr.numbers]]
    /\ UNCHANGED <<now, ticks, sweep, swept, dl>>

Stage(r, ops) == StageWith(r, ops, [op \in ops |-> Inputs(op)])

\* a handler that calls its operation a second time
InvokeTwice(rq) == [rq EXCEPT !.calls = @ + 2]

\* the handler calls its PDFProcessor operation
Invoke(rq) == [rq EXCEPT !.calls = @ + 1]

\* an except clause that deletes the staged inputs
ExceptFilesCleanup(files, staged) ==
    [p \in DOMAIN files \ {staged[i] : i \in 1..Len(staged)} |-> files[p]]

\* the file system after the handler's except clause: the clause deletes
\* nothing, the staged inputs are as the failure left them
ExceptFiles(files, staged) == files

\* the uploads of a request as its operation finds them
UploadsOf(rq) ==
    IF rq.op \in ContentOps THEN {<<[ok |-> TRUE, n |-> Len(rq.doc.pages)]>>}
    ELSE DocLists(rq.op, Len(rq.staged))

\* the PDFProcessor call of request r
Process(r) ==
    /\ req[r].pc = "staged"
    /\ \E docs \in UploadsOf(req[r]) :
      \E sc \in ScenariosOf(req[r].op) : \E alt \in AltScenariosOf(req[r].op) :
      \E isc \in ImageScenariosOf(req[r].op, IF docs = <<>> THEN 1 ELSE docs[1].n) :
         LET op  == req[r].op
             ids == IF op \in ListOps THEN 0 ELSE 1
             out == IF op \in ListOps THEN NoPath ELSE OutputPath(Prefix(op), nextId)
             f   == Facade(op, req[r].staged, req[r].ranges, req[r].numbers, out, fs,
                           docs, sc, isc,
                           [angle |-> req[r].angle, text |-> req[r].text,
                            doc |-> req[r].doc, alt |-> alt, texts |-> req[r].texts,
                            str |-> req[r].str])
             tried == IF op \in StrategyOps THEN f.tried ELSE <<>>
             rq  == [Invoke(req[r]) EXCEPT !.docs = docs, !.sc = sc, !.tried = tried,
                        !.alt = IF Len(tried) = 2 THEN alt ELSE "none"]
             written == WriteAll(fs, f.writes, now)
         IN  /\ fs' = IF f.exc # NoExc THEN ExceptFiles(written, req[r].staged)
                      ELSE written
             /\ created' = LogCreated(created, f.writes)
             /\ nextId' = nextId + ids
             /\ req' = [req EXCEPT ![r] =
                    IF f.exc # NoExc THEN Failed(rq, f.exc, "facade")
                    ELSE [rq EXCEPT !.pc = "processed", !.result = f.result,
                                    !.pages = f.pages,
                                    !.out = IF op \in ContentOps THEN f.doc ELSE NoDoc,
                                    !.report = IF op = "compare_pdfs" THEN f.report
                                               ELSE NoReport,
                                    !.wrapped = IF op = "excel_to_pdf" THEN f.wrapped
                                                ELSE <<>>]]
    /\ UNCHANGED <<now, ticks, sweep, swept, dl>>

\* a cleanup that removes temp_files[0] only
RemoveInputsFirstOnly(files, paths) ==
    IF paths = <<>> THEN [files |-> files, exc |-> NoExc]
    ELSE IF Head(paths) \notin DOMAIN files THEN [files |-> files, exc |-> MissingError]
    ELSE [files |-> RemoveFile(files, Head(paths)), exc |-> NoExc]

\* for temp_file in temp_files: os.remove(temp_file)
RECURSIVE RemoveInputs(_, _)
RemoveInputs(files, paths) ==
    IF paths = <<>> THEN [files |-> files, exc |-> NoExc]
    ELSE IF Head(paths) \notin DOMAIN files THEN [files |-> files, exc |-> MissingError]
    ELSE RemoveInputs(RemoveFile(files, Head(paths)), Tail(paths))

\* a success body that names a list result files
BodyOtherKey(op, result, angle) ==
    IF op \in ListOps THEN [files |-> result, message |-> Message(op, angle)]
    ELSE [output_file |-> result[1], message |-> Message(op, angle)]

\* the handler's success body
Body(op, result, angle) ==
    IF op \in ListOps THEN [output_files |-> result, message |-> Message(op, angle)]
    ELSE [output_file |-> result[1], message |-> Message(op, angle)]

\* input cleanup and the response of request r
Finish(r) ==
    /\ req[r].pc = "processed"
    /\ LET rm == RemoveInputs(fs, req[r].staged)
       IN  /\ fs' = rm.files
           /\ req' = [req EXCEPT ![r] =
                  IF rm.exc # NoExc THEN Failed(req[r], rm.exc, "cleanup")
                  ELSE [req[r] EXCEPT !.pc = "done",
                           !.resp = OkResponse(Body(req[r].op, req[r].result, req[r].angle))]]
    /\ UNCHANGED <<created, nextId, now, ticks, sweep, swept, dl>>

\* one request of a client, as the requests after it remember it
Hop(rq) ==
    [op |-> rq.op, angle |-> rq.angle, text |-> rq.text, doc |-> rq.doc, out |-> rq.out]

\* the client downloads the output of its answered request and uploads it in
\* its next request, one of at most MaxHops
Resubmit(r) ==
    /\ req[r].pc = "done" /\ req[r].resp.status = 200
    /\ req[r].op \in ContentOps
    /\ req[r].resp.body.output_file \in DOMAIN fs
    /\ Len(req[r].trail) + 1 < MaxHops
    /\ req' = [req EXCEPT ![r] =
           [IdleRequest EXCEPT !.chained = TRUE, !.doc = req[r].out,
                               !.trail = Append(req[r].trail, Hop(req[r]))]]
    /\ UNCHANGED <<fs, created, nextId, now, ticks, sweep, swept, dl>>

\* POST /api/create-zip: the whole handler
create_zip(r) ==
    /\ req[r].pc = "idle"
    /\ \E files \in SUBSET (DOMAIN created \cup {NoPath}) : \E sc \in {"ok", "fail_write"} :
         LET zip_filename == ZipPath(nextId)
             rq == [req[r] EXCEPT !.op = "create_zip"]
         IN  /\ fs' = WriteFile(fs, zip_filename, now)
             /\ created' = LogCreated(created, <<zip_filename>>)
             /\ nextId' = nextId + 1
             /\ req' = [req EXCEPT ![r] =
                    IF sc = "ok"
                    THEN [rq EXCEPT !.pc = "done", !.result = <<zip_filename>>,
                             !.resp = OkResponse([zip_file |-> zip_filename,
                                                  message |-> Message("create_zip", 0)])]
                    ELSE Failed(rq, LibraryError, "zip")]
    /\ UNCHANGED <<now, ticks, sweep, swept, dl>>

\* a download that removes the file it has served
download_and_remove(file_path) ==
    /\ dl' = IF file_path \notin DOMAIN fs
             THEN LET e == ErrorResponse(HTTPException(404, <<"File not found">>))
                  IN  [path |-> file_path, exists |-> FALSE, status |-> e.status,
                       detail |-> e.detail, media_type |-> "", file |-> NoPath]
             ELSE [path |-> file_path, exists |-> TRUE, status |-> 200, detail |-> <<>>,
                   media_type |-> "application/octet-stream", file |-> file_path]
    /\ fs' = IF file_path \in DOMAIN fs THEN RemoveFile(fs, file_path) ELSE fs
    /\ UNCHANGED <<created, nextId, now, ticks, req, sweep, swept>>

\* GET /api/download/{file_path}
download_file(file_path) ==
    /\ dl' = IF file_path \notin DOMAIN fs
             THEN LET e == ErrorResponse(HTTPException(404, <<"File not found">>))
                  IN  [path |-> file_path, exists |-> FALSE, status |-> e.status,
                       detail |-> e.detail, media_type |-> "", file |-> NoPath]
             ELSE [path |-> file_path, exists |-> TRUE, status |-> 200, detail |-> <<>>,
                   media_type |-> "application/octet-stream", file |-> file_path]
    /\ UNCHANGED <<fs, created, nextId, now, ticks, req, sweep, swept>>

Download ==
    \E file_path \in {p \in DOMAIN fs : ~fs[p].isdir} \cup DOMAIN created \cup {NoPath} :
        download_file(file_path)

(***************************************************************************)
(* cleanup.py: cleanup_old_files, run by DELETE /api/cleanup, by cron or   *)
(* by hand; it runs beside the handlers, one directory entry per step.     *)
(***************************************************************************)
SecondsPerHour == 3600
DefaultMaxAgeHours == 24
MaxAgeChoices == {0, DefaultMaxAgeHours}

\* a comparison that also takes files of exactly the maximum age
TooOldInclusive(current_time, mtime, max_age_seconds) ==
    current_time - mtime >= max_age_seconds

\* file_age > max_age_seconds
TooOld(current_time, mtime, max_age_seconds) == current_time - mtime > max_age_seconds

\* a sweep that leaves the entries of outputs/ alone
SkippedOutputs(files, p) ==
    (p \in DOMAIN files /\ files[p].isdir) \/ p.name = GitKeep \/ p.dir = "outputs"

\* os.path.isdir(file_path) or filename == '.gitkeep'
Skipped(files, p) == (p \in DOMAIN files /\ files[p].isdir) \/ p.name = GitKeep

\* deleted_count = 0; current_time = time.time(); max_age_seconds = ...;
\* runs is the number of sweeps started so far, this one included
BeginSweep(max_age_hours, runs) ==
    /\ sweep.pc \in {"idle", "done"}
    /\ sweep' = [pc |-> "scan", max_age_hours |-> max_age_hours, current_time |-> now,
                 max_age_seconds |-> max_age_hours * SecondsPerHour,
                 dirs |-> <<"uploads", "outputs">>, listing |-> {},
                 deleted_count |-> 0, examined |-> {}, runs |-> runs]
    /\ UNCHANGED <<fs, created, nextId, now, ticks, req, swept, dl>>

\* a call of cleanup_old_files(max_age_hours), one of at most MaxSweeps
StartSweep(max_age_hours) ==
    /\ sweep.runs < MaxSweeps
    /\ BeginSweep(max_age_hours, sweep.runs + 1)

\* cleanup_old_files() as cron and DELETE /api/cleanup call it, again and
\* again: the default window, calls not counted
Resweep == BeginSweep(DefaultMaxAgeHours, sweep.runs)

\* for directory in directories_to_clean: ... os.listdir(directory)
SweepList ==
    /\ sweep.pc = "scan"
    /\ sweep.listing = {}
    /\ sweep.dirs # <<>>
    /\ sweep' = [sweep EXCEPT !.listing = ListDir(fs, Head(sweep.dirs)),
                              !.dirs = Tail(sweep.dirs)]
    /\ UNCHANGED <<fs, created, nextId, now, ticks, req, swept, dl>>

\* a handler of OSError that lets the exception leave cleanup_old_files
OnOSErrorPropagates(sw) == [sw EXCEPT !.pc = "raised", !.listing = {}, !.dirs = <<>>]

\* except OSError as e: print(...): the loop goes on with the next entry
OnOSError(sw) == sw

\* the OS calls of the loop body that can fail for an entry
Faults == {"none", "getmtime", "remove"}

\* a loop body that reads the clock again for every entry: the age of an
\* entry is measured when the entry is examined
SweepExamineByClock(p, fault) ==
    /\ sweep.pc = "scan"
    /\ p \in sweep.listing
    /\ LET present == p \in DOMAIN fs
           skip    == Skipped(fs, p)
           nomtime == ~present \/ fault = "getmtime"
           old     == ~nomtime /\ TooOld(now, fs[p].mtime, sweep.max_age_seconds)
           raised  == ~skip /\ (nomtime \/ (old /\ fault = "remove"))
           removed == ~skip /\ old /\ ~raised
           entry   == [path |-> p, present |-> present,
                       isdir |-> present /\ fs[p].isdir,
                       mtime |-> IF present THEN fs[p].mtime ELSE 0,
                       os_error |-> raised,
                       removed |-> removed]
           sw      == [sweep EXCEPT !.listing = @ \ {p},
                                    !.examined = @ \cup {entry},
                                    !.deleted_count = IF removed THEN @ + 1 ELSE @]
       IN  /\ fs' = IF removed THEN RemoveFile(fs, p) ELSE fs
           /\ swept' = IF removed THEN swept \cup {p} ELSE swept
           /\ sweep' = IF raised THEN OnOSError(sw) ELSE sw
    /\ UNCHANGED <<created, nextId, now, ticks, req, dl>>

\* the body of the inner loop for one listed entry; fault names the OS call
\* that raises OSError for it, if any.  An entry that is gone when it is
\* examined makes os.path.getmtime raise OSError as well.
SweepExamine(p, fault) ==
    /\ sweep.pc = "scan"
    /\ p \in sweep.listing
    /\ LET present == p \in DOMAIN fs
           skip    == Skipped(fs, p)
           nomtime == ~present \/ fault = "getmtime"
           old     == ~nomtime /\ TooOld(sweep.current_time, fs[p].mtime,
                                         sweep.max_age_seconds)
           raised  == ~skip /\ (nomtime \/ (old /\ fault = "remove"))
           removed == ~skip /\ old /\ ~raised
           entry   == [path |-> p, present |-> present,
                       isdir |-> present /\ fs[p].isdir,
                       mtime |-> IF present THEN fs[p].mtime ELSE 0,
                       os_error |-> raised,
                       removed |-> removed]
           sw      == [sweep EXCEPT !.listing = @ \ {p},
                                    !.examined = @ \cup {entry},
                                    !.deleted_count = IF removed THEN @ + 1 ELSE @]
       IN  /\ fs' = IF removed THEN RemoveFile(fs, p) ELSE fs
           /\ swept' = IF removed THEN swept \cup {p} ELSE swept
           /\ sweep' = IF raised THEN OnOSError(sw) ELSE sw
    /\ UNCHANGED <<created, nextId, now, ticks, req, dl>>

\* return deleted_count
SweepReturn ==
    /\ sweep.pc = "scan"
    /\ sweep.listing = {}
    /\ sweep.dirs = <<>>
    /\ sweep' = [sweep EXCEPT !.pc = "done"]
    /\ UNCHANGED <<fs, created, nextId, now, ticks, req, swept, dl>>

(***************************************************************************)
(* Time                                                                    *)
(***************************************************************************)
TickChoices == {SecondsPerHour, DefaultMaxAgeHours * SecondsPerHour}

Tick(d) ==
    /\ ticks < MaxTicks
    /\ now' = now + d
    /\ ticks' = ticks + 1
    /\ UNCHANGED <<fs, created, nextId, req, sweep, swept, dl>>

\* the longest time the clock shows in a behaviour where time never stops
Horizon == MaxDays * DefaultMaxAgeHours * SecondsPerHour

Day == DefaultMaxAgeHours * SecondsPerHour

\* time.time() advances by d, without end.  The sweep uses times only in
\* current_time - os.path.getmtime(file_path); once the clock shows Horizon,
\* the time origin is moved forward instead of the clock, which lowers every
\* stored time by the same amount.  A modification time stops at -Horizon
\* (the file's age is then read as no more than it is, and as more than a
\* day), and a sweep returns before its current_time would fall below 0,
\* that is, a sweep takes less than MaxDays days.
Elapse(d) ==
    LET shift == Max(now + d - Horizon, 0)
    IN  /\ sweep.pc = "scan" => sweep.current_time - shift >= 0
        /\ now' = now + d - shift
        /\ fs' = [p \in DOMAIN fs |->
                    [fs[p] EXCEPT !.mtime = Max(@ - shift, 0 - Horizon)]]
        /\ sweep' = [sweep EXCEPT !.current_time = Max(@ - shift, 0)]
        /\ UNCHANGED <<created, nextId, ticks, req, swept, dl>>

(***************************************************************************)
(* The system                                                              *)
(***************************************************************************)
\* the POST handlers, every route, requests running concurrently
Next ==
    \/ \E r \in Reqs : Stage(r, FacadeOps)
    \/ \E r \in Reqs : Process(r)
    \/ \E r \in Reqs : Finish(r)
    \/ \E r \in Reqs : create_zip(r)

Spec == Init /\ [][Next]_vars

\* the handlers of some routes beside the sweeper, as time passes; every
\* os.remove of the sweeper succeeds
SweepOps == {"merge_pdfs", "compress_pdf", "optimize_pdf", "split_pdf"}

\* the request that is in flight while the sweeper runs
SweepReqs == {1}

SweepNext ==
    \/ \E r \in SweepReqs : Stage(r, SweepOps)
    \/ \E r \in SweepReqs : Process(r)
    \/ \E r \in SweepReqs : Finish(r)
    \/ \E h \in MaxAgeChoices : StartSweep(h)
    \/ SweepList
    \/ \E p \in sweep.listing : SweepExamine(p, "none")
    \/ SweepReturn
    \/ \E d \in TickChoices : Tick(d)

SweepSpec == Init /\ [][SweepNext]_vars

\* downloads beside the handlers of some routes
DownloadOps == {"compress_pdf", "split_pdf"}

DownloadNext ==
    \/ \E r \in Reqs : Stage(r, DownloadOps)
    \/ \E r \in Reqs : Process(r)
    \/ \E r \in Reqs : Finish(r)
    \/ Download

DownloadSpec == Init /\ [][DownloadNext]_vars

\* the sweeper with OS errors: os.path.getmtime or os.remove may raise for
\* any entry, beside a request that can leave files in both zones
FaultOps == {"compress_pdf"}

FaultNext ==
    \/ \E r \in SweepReqs : Stage(r, FaultOps)
    \/ \E r \in SweepReqs : Process(r)
    \/ \E r \in SweepReqs : Finish(r)
    \/ \E h \in MaxAgeChoices : StartSweep(h)
    \/ SweepList
    \/ \E p \in sweep.listing : \E fault \in Faults : SweepExamine(p, fault)
    \/ SweepReturn
    \/ \E d \in TickChoices : Tick(d)

FaultSpec == Init /\ [][FaultNext]_vars

\* the routes whose handlers touch the store: two requests to jpg-to-pdf,
\* split or create-zip, and downloads.  No sweep runs, so a file that leaves
\* the store was removed by a handler.
FrameOps == {"jpg_to_pdf", "split_pdf"}

FrameNext ==
    \/ \E r \in Reqs : Stage(r, FrameOps)
    \/ \E r \in Reqs : Process(r)
    \/ \E r \in Reqs : Finish(r)
    \/ \E r \in Reqs : create_zip(r)
    \/ Download

FrameSpec == Init /\ [][FrameNext]_vars

\* the routes whose output pages are followed, one request, with the pages
\* and page_order fields of PageStrings
PagesNext ==
    \/ \E r \in SweepReqs : StageWith(r, PageOps, [op \in PageOps |-> PageInputs(op)])
    \/ \E r \in SweepReqs : Process(r)
    \/ \E r \in SweepReqs : Finish(r)

PagesSpec == Init /\ [][PagesNext]_vars

\* a client that rotates, protects or unlocks a document, then the output,
\* and so on, or compresses or optimizes a document
ChainOps == {"rotate_pdf", "protect_pdf", "unlock_pdf", "compress_pdf", "optimize_pdf"}

ChainNext ==
    \/ \E r \in SweepReqs : StageWith(r, ChainOps, [op \in ChainOps |-> ChainInputs(op)])
    \/ \E r \in SweepReqs : Process(r)
    \/ \E r \in SweepReqs : Finish(r)
    \/ \E r \in SweepReqs : Resubmit(r)

ChainSpec == Init /\ [][ChainNext]_vars

\* requests to compare two documents, with the page texts of TextDocs
CompareOps == {"compare_pdfs"}

CompareNext ==
    \/ \E r \in SweepReqs :
           StageWith(r, CompareOps, [op \in CompareOps |-> CompareInputs(op)])
    \/ \E r \in SweepReqs : Process(r)
    \/ \E r \in SweepReqs : Finish(r)

CompareSpec == Init /\ [][CompareNext]_vars

\* requests to convert a workbook of one cell, with the texts of CellTexts
CellOps == {"excel_to_pdf"}

CellNext ==
    \/ \E r \in SweepReqs : StageWith(r, CellOps, [op \in CellOps |-> CellInputs(op)])
    \/ \E r \in SweepReqs : Process(r)
    \/ \E r \in SweepReqs : Finish(r)

CellSpec == Init /\ [][CellNext]_vars

\* concurrent requests to the routes that parse a form field
ParseNext ==
    \/ \E r \in Reqs : StageWith(r, ParsingOps, [op \in ParsingOps |-> ParseInputs(op)])
    \/ \E r \in Reqs : Process(r)
    \/ \E r \in Reqs : Finish(r)

ParseSpec == Init /\ [][ParseNext]_vars

\* the store in the long run: a request, sweeps with the default window that
\* keep being run, days that keep passing; every os.remove succeeds.  A
\* handler step that is possible is taken, and so is a step of a running
\* sweep.
LiveOps == {"compress_pdf"}

LiveNext ==
    \/ \E r \in SweepReqs : Stage(r, LiveOps)
    \/ \E r \in SweepReqs : Process(r)
    \/ \E r \in SweepReqs : Finish(r)
    \/ Resweep
    \/ SweepList
    \/ \E p \in sweep.listing : SweepExamine(p, "none")
    \/ SweepReturn
    \/ Elapse(Day)

LiveSpec ==
    /\ Init /\ [][LiveNext]_vars
    /\ \A r \in SweepReqs : WF_vars(Process(r)) /\ WF_vars(Finish(r))
    /\ WF_vars(Resweep) /\ WF_vars(SweepList) /\ WF_vars(SweepReturn)
    /\ WF_vars(\E p \in sweep.listing : SweepExamine(p, "none"))
    /\ WF_vars(Elapse(Day))

(***************************************************************************)
(* Properties                                                              *)
(***************************************************************************)
StagedOf(r) == {req[r].staged[i] : i \in 1..Len(req[r].staged)}

\* C1: when a handler that stages uploads answers with success, none of
\* the files it staged is left in uploads/.
C1_SuccessRemovesInputs ==
    \A r \in Reqs :
        (req[r].pc = "done" /\ req[r].resp.status = 200)
            => \A p \in StagedOf(r) : p \notin DOMAIN fs

C1_Witness ==
    \E r \in Reqs :
        /\ req[r].pc = "done" /\ req[r].resp.status = 200
        /\ req[r].op = "merge_pdfs" /\ Len(req[r].staged) = 2
        /\ \A p \in StagedOf(r) : p \in DOMAIN created /\ p \notin DOMAIN fs

\* C2: when the PDFProcessor call raised, the handler deleted none of the
\* inputs it staged: each of them is in uploads/ at the error response and
\* from then on, unless a sweep removed it.
C2_FailureLeavesInputs ==
    \A r \in Reqs :
        req[r].at = "facade"
            => /\ req[r].pc = "done" /\ req[r].resp.status = 500
               /\ \A p \in StagedOf(r) : p \in DOMAIN fs \/ p \in swept

C2_Witness ==
    \E r \in Reqs :
        /\ req[r].pc = "done" /\ req[r].at = "facade" /\ req[r].op = "merge_pdfs"
        /\ Len(req[r].staged) = 2
        /\ \A p \in StagedOf(r) : p \in DOMAIN fs
        /\ sweep.pc = "done"
        /\ \E e \in sweep.examined : e.path = req[r].staged[1] /\ ~e.removed

\* C3: a request rejected by validation is answered with a 4xx status that
\* carries the validation detail.
C3_InvalidInputIsClientError ==
    \A r \in Reqs :
        req[r].at = "validation"
            => /\ req[r].resp.status \in 400..499
               /\ req[r].resp.detail = req[r].exc.msg

\* C4: a merge request rejected for a file that is not a PDF leaves no file
\* it staged in uploads/.
C4_RejectedMergeStagesNothing ==
    \A r \in Reqs :
        (req[r].op = "merge_pdfs" /\ req[r].at = "validation")
            => \A p \in StagedOf(r) : p \notin DOMAIN fs

\* C5: an exception other than a validation rejection, raised while
\* staging, parsing, in the PDFProcessor call or while deleting inputs, ends
\* the request with status 500, the exception's text as detail and no body.
C5_FailureIsServerError ==
    \A r \in Reqs :
        (req[r].exc # NoExc /\ req[r].at # "validation")
            => /\ req[r].pc = "done"
               /\ req[r].resp.status = 500
               /\ req[r].resp.detail = Str(req[r].exc)
               /\ DOMAIN req[r].resp.body = {}

C5_Witness ==
    \E r \in Reqs :
        /\ req[r].pc = "done" /\ req[r].at = "facade" /\ req[r].op = "optimize_pdf"
        /\ req[r].resp.status = 500
        /\ req[r].resp.detail = <<"PDF optimization failed: ", "library error">>

\* C6 as stated: a finished request that passed validation and parsing has
\* made exactly one PDFProcessor call, one that validation rejected none.
\* (A request that failed while its uploads were staged is left aside.)
C6_OneCallPerRequest ==
    \A r \in Reqs :
        req[r].pc = "done"
            => /\ req[r].at = "validation" => req[r].calls = 0
               /\ req[r].at \notin {"validation", "staging", "parsing"}
                      => req[r].calls = 1

\* C6, amended: a request to a route other than create-zip whose uploads were
\* validated, staged and parsed without an exception has made exactly one
\* PDFProcessor call when it ends, also when that call failed; a request that
\* ended in validation, staging or parsing, and a create-zip request, has
\* made none.  No request ever makes more than one call.
C6_OneCallPerProcessedRequest ==
    \A r \in Reqs :
        /\ req[r].calls <= 1
        /\ req[r].pc = "done"
            => /\ (req[r].op \in FacadeOps /\ req[r].at \in {"none", "facade", "cleanup"})
                      => req[r].calls = 1
               /\ (req[r].at \in {"validation", "staging", "parsing"}
                      \/ req[r].op = "create_zip")
                      => req[r].calls = 0

C6_Witness ==
    \E r \in Reqs :
        /\ req[r].pc = "done" /\ req[r].at = "facade" /\ req[r].op = "protect_pdf"
        /\ req[r].calls = 1

\* the keys of a success body that refer to a result
ResultKeys(r) == DOMAIN req[r].resp.body \ {"message"}

\* C7 as stated: every success body has a message and exactly one of
\* output_file and output_files, and no other key.
C7_ResultKey ==
    \A r \in Reqs :
        req[r].resp.status = 200
            => /\ "message" \in DOMAIN req[r].resp.body
               /\ ResultKeys(r) \in {{"output_file"}, {"output_files"}}

\* C7, amended: the success body of every POST route other than create-zip
\* has a message and exactly one of output_file (a path in outputs/) and
\* output_files (a list of paths in outputs/); the body of create-zip has a
\* message and the key zip_file.
C7_ResultKeyExceptZip ==
    \A r \in Reqs :
        req[r].resp.status = 200
            => LET body == req[r].resp.body
               IN  /\ "message" \in DOMAIN body
                   /\ req[r].op = "create_zip" => ResultKeys(r) = {"zip_file"}
                   /\ req[r].op # "create_zip"
                        => /\ ResultKeys(r) \in {{"output_file"}, {"output_files"}}
                           /\ ResultKeys(r) = {"output_file"}
                                => body.output_file.dir = "outputs"
                           /\ ResultKeys(r) = {"output_files"}
                                => \A i \in 1..Len(body.output_files) :
                                       body.output_files[i].dir = "outputs"

C7_Witness ==
    \E r \in Reqs :
        /\ req[r].resp.status = 200 /\ req[r].op = "split_pdf"
        /\ ResultKeys(r) = {"output_files"}
        /\ Len(req[r].resp.body.output_files) = 2

\* C8: a download of an existing path answers 200 with the file and the
\* content type application/octet-stream; of a missing path, 404.
C8_DownloadStatus ==
    dl.status # 0
        => /\ dl.exists => /\ dl.status = 200
                           /\ dl.media_type = "application/octet-stream"
                           /\ dl.file = dl.path
           /\ ~dl.exists => dl.status = 404

\* C9: no path of the staging store is the target of two creation events.
C9_UniqueCreation == \A p \in DOMAIN created : created[p] = 1

\* the entries the finished sweep had to delete: regular files whose age at
\* the start of the sweep exceeds max_age_hours, other than .gitkeep
Expired(e) ==
    /\ e.present /\ ~e.isdir /\ e.path.name # GitKeep
    /\ sweep.current_time - e.mtime > sweep.max_age_hours * 3600

\* C10: a finished sweep has examined entries of uploads/ and outputs/ only,
\* has removed exactly the expired ones among them, and returns their
\* number; the entries it did not remove, the subdirectory and the file
\* outside the zones are still there.
C10_SweepDeletesExpired ==
    sweep.pc = "done"
        => /\ \A e \in sweep.examined :
                /\ e.path.dir \in Zones
                /\ e.removed <=> Expired(e)
                /\ e.removed => e.path \notin DOMAIN fs
                /\ (~e.removed /\ e.present)
                      => \/ e.path \in DOMAIN fs
                         \/ \E r \in Reqs : e.path \in StagedOf(r) /\ req[r].pc = "done"
           /\ sweep.deleted_count = Cardinality({e \in sweep.examined : Expired(e)})
           /\ \A p \in DOMAIN InitialFiles : p \in DOMAIN fs

C10_Witness ==
    /\ sweep.pc = "done" /\ sweep.max_age_hours = 24 /\ sweep.deleted_count = 1
    /\ \E e \in sweep.examined :
          e.removed /\ sweep.current_time - e.mtime = 25 * 3600
    /\ \E e \in sweep.examined :
          /\ ~e.removed /\ e.present /\ e.path.name # GitKeep /\ ~e.isdir
          /\ sweep.current_time - e.mtime = 3600 /\ e.path \in DOMAIN fs

\* C11: an OSError raised by os.path.getmtime or os.remove for one entry
\* never leaves the sweep: the sweep goes on, and when it has returned, it
\* has removed every expired entry for which no OS call failed, in both
\* directories, has counted exactly the entries it removed, and every expired
\* file that is still in a zone is one whose own OS call failed.
C11_SweepSurvivesOSError ==
    /\ sweep.pc # "raised"
    /\ sweep.pc = "done"
        => /\ \A e \in sweep.examined :
                /\ e.removed <=> (Expired(e) /\ ~e.os_error)
                /\ e.removed => e.path \notin DOMAIN fs
           /\ sweep.deleted_count = Cardinality({e \in sweep.examined : e.removed})
           /\ \A p \in DOMAIN fs :
                (/\ p.dir \in Zones /\ ~fs[p].isdir /\ p.name # GitKeep
                 /\ sweep.current_time - fs[p].mtime > sweep.max_age_seconds)
                    => \E e \in sweep.examined : e.path = p /\ e.os_error

C11_Witness ==
    /\ sweep.pc = "done" /\ sweep.deleted_count = 1
    /\ \E e \in sweep.examined :
          /\ e.path.dir = "uploads" /\ e.os_error /\ Expired(e)
          /\ e.path \in DOMAIN fs
    /\ \E e \in sweep.examined :
          e.path.dir = "outputs" /\ e.removed /\ ~e.os_error

\* the identifiers a behaviour with one request draws
Ids == 1..2

\* a file made with identifier i is in the store
InStore(i) == \E p \in DOMAIN fs : p.id = i /\ p.dir \in Zones

\* C12: a handler that answers with success has deleted its inputs; a sweep
\* that returns leaves no file (other than .gitkeep) that was older than the
\* window when the sweep started; and, as sweeps keep being run and
\* days keep passing, every file made in uploads/ or outputs/ is deleted at
\* some time.
C12_EveryFileIsDeleted ==
    /\ [](\A r \in SweepReqs :
            (req[r].pc = "done" /\ req[r].resp.status = 200)
                => \A p \in StagedOf(r) : p \notin DOMAIN fs)
    /\ [][(sweep.pc = "scan" /\ sweep'.pc = "done")
            => \A p \in DOMAIN fs :
                  (p.dir \in Zones /\ ~fs[p].isdir /\ p.name # GitKeep)
                      => ~(sweep.current_time - fs[p].mtime > sweep.max_age_seconds)]_vars
    /\ \A i \in Ids : InStore(i) ~> ~InStore(i)

C12_Witness ==
    /\ \E r \in SweepReqs :
          /\ req[r].pc = "done" /\ req[r].at = "facade" /\ req[r].op = "compress_pdf"
          /\ req[r].staged[1] \in swept
    /\ \E p \in swept : p.dir = "outputs"
    /\ \A i \in Ids : ~InStore(i)

\* the request whose handler produces its response in this step
Responds(r) == req[r].pc # "done" /\ req'[r].pc = "done"

\* C13: a step in which a file leaves the store is a step of the sweep that
\* removes it, or the last step of a handler that answers with success and
\* the file is an input in uploads/ that this handler staged; no handler
\* step, download and create-zip included, removes a file of outputs/ or an
\* input of another request.  So every output path of a success response is
\* in outputs/ from the response on, until a sweep removes it.
C13_HandlersRemoveOwnInputsOnly ==
    /\ [][\A p \in DOMAIN fs \ DOMAIN fs' :
            \/ p \in swept' /\ sweep'.deleted_count = sweep.deleted_count + 1
            \/ \E r \in Reqs :
                  /\ Responds(r) /\ p \in StagedOf(r) /\ p.dir = "uploads"
                  /\ \A q \in Reqs \ {r} : p \notin StagedOf(q)]_vars
    /\ [](\A r \in Reqs :
            (req[r].pc = "done" /\ req[r].resp.status = 200)
                => \A i \in 1..Len(req[r].result) :
                      /\ req[r].result[i].dir = "outputs"
                      /\ req[r].result[i] \in DOMAIN created
                      /\ req[r].result[i] \in DOMAIN fs \/ req[r].result[i] \in swept)

C13_Witness ==
    /\ req[1].pc = "done" /\ req[1].resp.status = 200 /\ req[1].op = "jpg_to_pdf"
    /\ req[1].result[1] \in DOMAIN fs
    /\ req[2].op = "jpg_to_pdf" /\ req[2].at = "facade"
    /\ \A p \in StagedOf(2) : p \in DOMAIN fs
    /\ Len(req[1].staged) = 2 /\ \A p \in StagedOf(1) : p \notin DOMAIN fs
    /\ dl.status = 200 /\ dl.path = req[1].result[1]

(***************************************************************************)
(* Pages: what the claims say of page ranges and page lists                *)
(***************************************************************************)
\* the positions of the commas of a text, and its comma-separated items
Commas(text) == {k \in 1..Len(text) : text[k] = ","}

NthComma(text, i) ==
    IF i = 0 THEN 0
    ELSE IF i > Cardinality(Commas(text)) THEN Len(text) + 1
    ELSE CHOOSE k \in Commas(text) : Cardinality({j \in Commas(text) : j < k}) = i - 1

ItemCount(text) == Cardinality(Commas(text)) + 1

Item(text, i) == SubSeq(text, NthComma(text, i - 1) + 1, NthComma(text, i) - 1)

\* an item without its blanks, when the blanks are at its ends only
Core(item) == SelectSeq(item, LAMBDA c : c # " ")

BlanksAtEndsOnly(item) ==
    \A i, j, k \in 1..Len(item) :
        (i < j /\ j < k /\ item[i] # " " /\ item[k] # " ") => item[j] # " "

IsNumber(ds) == ds # <<>> /\ \A i \in 1..Len(ds) : ds[i] \in Digits

RECURSIVE Decimal(_)
Decimal(ds) ==
    IF ds = <<>> THEN 0 ELSE Decimal(SubSeq(ds, 1, Len(ds) - 1)) * 10 + DigitVal(ds[Len(ds)])

Dashes(core) == {k \in 1..Len(core) : core[k] = "-"}

\* an item 'a-b' or 'n', blanks around it allowed
ValidItem(item) ==
    /\ BlanksAtEndsOnly(item)
    /\ \/ IsNumber(Core(item))
       \/ /\ Cardinality(Dashes(Core(item))) = 1
          /\ LET d == CHOOSE k \in Dashes(Core(item)) : TRUE
             IN  /\ IsNumber(SubSeq(Core(item), 1, d - 1))
                 /\ IsNumber(SubSeq(Core(item), d + 1, Len(Core(item))))

\* the pair a valid item stands for: (a, b) for 'a-b', (n, n) for 'n'
PairOf(item) ==
    LET core == Core(item)
    IN  IF Dashes(core) = {} THEN <<Decimal(core), Decimal(core)>>
        ELSE LET d == CHOOSE k \in Dashes(core) : TRUE
             IN  <<Decimal(SubSeq(core, 1, d - 1)),
                   Decimal(SubSeq(core, d + 1, Len(core)))>>

ValidRanges(text) == \A i \in 1..ItemCount(text) : ValidItem(Item(text, i))

\* the request got as far as the parsing of its pages field
Parsed(r) == req[r].pc # "idle" /\ req[r].at \notin {"validation", "staging"}

\* C14: the split handler parses a pages field made of valid items into one
\* pair per comma-separated item, in the order of the items, (a, b) for an
\* item 'a-b' and (n, n) for an item 'n'; parsing does not fail.
C14_ParsePageRanges ==
    \A r \in Reqs :
        (req[r].op = "split_pdf" /\ Parsed(r) /\ ValidRanges(req[r].str))
            => /\ req[r].at # "parsing"
               /\ Len(req[r].ranges) = ItemCount(req[r].str)
               /\ \A i \in 1..ItemCount(req[r].str) :
                     req[r].ranges[i] = PairOf(Item(req[r].str, i))

C14_Witness ==
    \E r \in Reqs :
        /\ req[r].op = "split_pdf" /\ req[r].pc = "staged"
        /\ req[r].str = <<"1", "-", "3", ",", "5", ",", "7", "-", "8">>
        /\ req[r].ranges = <<(<<1, 3>>), (<<5, 5>>), (<<7, 8>>)>>

\* the PDFProcessor call of the request has returned
Returned(r) == req[r].calls = 1 /\ req[r].at # "facade"

\* the pages lo..hi of the first input, in ascending order
Slice(lo, hi) == [k \in 1..Max(hi - lo + 1, 0) |-> [doc |-> 1, no |-> lo + k - 1]]

\* C15: a split whose pages field is empty or blank passes no ranges, and
\* the call on a document of N pages then returns N outputs, the i-th of
\* them split_<i>_<input> holding page i and nothing else.
C15_SplitWithoutRanges ==
    \A r \in Reqs :
        (req[r].op = "split_pdf" /\ Parsed(r) /\ Core(req[r].str) = <<>>)
            => /\ req[r].at # "parsing" /\ req[r].ranges = <<>>
               /\ (req[r].calls = 1 /\ req[r].sc = "ok")
                    => /\ Returned(r)
                       /\ Len(req[r].result) = req[r].docs[1].n
                       /\ Len(req[r].pages) = req[r].docs[1].n
                       /\ \A i \in 1..req[r].docs[1].n :
                             /\ req[r].result[i] = SplitPath(i, req[r].staged[1])
                             /\ req[r].result[i] \in DOMAIN created
                             /\ req[r].pages[i] = <<[doc |-> 1, no |-> i]>>

C15_Witness ==
    \E r \in Reqs :
        /\ req[r].op = "split_pdf" /\ req[r].str = <<" ">> /\ req[r].resp.status = 200
        /\ req[r].docs[1].n = 2 /\ Len(req[r].resp.body.output_files) = 2
        /\ req[r].pages = <<(<<[doc |-> 1, no |-> 1]>>), (<<[doc |-> 1, no |-> 2]>>)>>

\* C16: a split of a document of N pages with a list of ranges that is not
\* empty returns one output per range, in the order of the ranges, the i-th
\* holding the pages max(start, 1)..min(end, N) in ascending order; it holds
\* no page when the range lies outside 1..N or has start > end, and the call
\* does not fail for such a range.
C16_SplitByRanges ==
    \A r \in Reqs :
        (req[r].op = "split_pdf" /\ req[r].ranges # <<>>
           /\ req[r].calls = 1 /\ req[r].sc = "ok")
            => /\ Returned(r)
               /\ Len(req[r].result) = Len(req[r].ranges)
               /\ Len(req[r].pages) = Len(req[r].ranges)
               /\ \A i \in 1..Len(req[r].ranges) :
                     /\ req[r].result[i] = SplitPath(i, req[r].staged[1])
                     /\ req[r].result[i] \in DOMAIN created
                     /\ req[r].pages[i] =
                          Slice(Max(req[r].ranges[i][1], 1),
                                Min(req[r].ranges[i][2], req[r].docs[1].n))

C16_Witness ==
    \E r \in Reqs :
        /\ req[r].op = "split_pdf" /\ req[r].resp.status = 200
        /\ req[r].docs[1].n = 2
        /\ req[r].ranges = <<(<<2, 1>>), (<<5, 5>>), (<<1, 3>>)>>
        /\ req[r].pages = <<(<<>>), (<<>>), (<<[doc |-> 1, no |-> 1], [doc |-> 1, no |-> 2]>>)>>
        /\ \A i \in 1..3 : req[r].result[i] \in DOMAIN fs

\* the number of pages of the inputs before the i-th
RECURSIVE PagesBefore(_, _)
PagesBefore(docs, i) == IF i <= 1 THEN 0 ELSE PagesBefore(docs, i - 1) + docs[i - 1].n

TooFewFiles == HTTPException(400, <<"At least 2 PDF files required for merging">>)

\* C17: a merge whose call returns has at least two inputs and one output,
\* whose pages are the pages of the first input in their order, then those
\* of the second, and so on: as many pages as the inputs have together.  A
\* merge request never gets past validation with fewer than two files, and
\* the rejection for too few files comes before anything is staged.
C17_MergeConcatenates ==
    \A r \in Reqs :
        req[r].op = "merge_pdfs"
            => /\ Parsed(r) => Len(req[r].staged) >= 2
               /\ req[r].exc = TooFewFiles
                    => /\ req[r].pc = "done" /\ req[r].resp.status # 200
                       /\ req[r].staged = <<>> /\ req[r].calls = 0
                       /\ \A p \in DOMAIN created : p.dir # "uploads"
               /\ (req[r].calls = 1 /\ req[r].sc = "ok"
                      /\ \A i \in 1..Len(req[r].docs) : req[r].docs[i].ok)
                    => /\ Returned(r)
                       /\ Len(req[r].docs) = Len(req[r].staged)
                       /\ Len(req[r].result) = 1 /\ Len(req[r].pages) = 1
                       /\ req[r].result[1] \in DOMAIN created
                       /\ Len(req[r].pages[1]) =
                            PagesBefore(req[r].docs, Len(req[r].docs) + 1)
                       /\ \A i \in 1..Len(req[r].docs) : \A k \in 1..req[r].docs[i].n :
                             req[r].pages[1][PagesBefore(req[r].docs, i) + k]
                                 = [doc |-> i, no |-> k]

C17_Witness ==
    \E r \in Reqs :
        /\ req[r].op = "merge_pdfs" /\ req[r].resp.status = 200
        /\ req[r].docs = <<[ok |-> TRUE, n |-> 1], [ok |-> TRUE, n |-> 2]>>
        /\ req[r].pages[1] = <<[doc |-> 1, no |-> 1], [doc |-> 2, no |-> 1],
                               [doc |-> 2, no |-> 2]>>
        /\ req[r].resp.body.output_file \in DOMAIN fs

\* C18: when an input of a merge cannot be opened or appended, the call
\* raises and has written no output, not even one with the inputs before
\* the failing one; the request ends with status 500 and names no output.
C18_MergeAllOrNothing ==
    \A r \in Reqs :
        (req[r].op = "merge_pdfs" /\ req[r].calls = 1
           /\ \E i \in 1..Len(req[r].docs) : ~req[r].docs[i].ok)
            => /\ req[r].pc = "done" /\ req[r].at = "facade"
               /\ req[r].exc = LibraryError
               /\ req[r].resp.status = 500 /\ DOMAIN req[r].resp.body = {}
               /\ req[r].result = <<>>
               /\ \A p \in DOMAIN created \cup DOMAIN fs : p.pre # "merged"

C18_Witness ==
    \E r \in Reqs :
        /\ req[r].op = "merge_pdfs" /\ req[r].at = "facade"
        /\ req[r].docs = <<[ok |-> TRUE, n |-> 2], [ok |-> FALSE, n |-> 0]>>
        /\ req[r].resp.status = 500
        /\ \A p \in DOMAIN fs : p.dir = "outputs" => p \in DOMAIN InitialFiles

\* the numbers of a list that name a page of an n-page document, as they come
InDocument(numbers, n) == SelectSeq(numbers, LAMBDA x : x \in 1..n)

\* the pages of the one input that a list of numbers names, as they come
Named(numbers, n) ==
    [k \in 1..Len(InDocument(numbers, n)) |-> [doc |-> 1, no |-> InDocument(numbers, n)[k]]]

\* a request for op whose call met a readable document and a library that works
Served(r, op) ==
    /\ req[r].op = op /\ req[r].calls = 1 /\ req[r].sc = "ok"
    /\ \A i \in 1..Len(req[r].docs) : req[r].docs[i].ok

\* C19: extracting a list of page numbers from an N-page document returns
\* one output whose pages are the list without the numbers outside 1..N, in
\* the order of the list, a page as often as the list names it; a number
\* outside 1..N raises nothing.
C19_ExtractFollowsList ==
    \A r \in Reqs :
        Served(r, "extract_pages")
            => /\ Returned(r) /\ req[r].exc = NoExc
               /\ Len(req[r].result) = 1 /\ req[r].result[1] \in DOMAIN created
               /\ req[r].pages = <<Named(req[r].numbers, req[r].docs[1].n)>>

C19_Witness ==
    \E r \in Reqs :
        /\ req[r].op = "extract_pages" /\ req[r].resp.status = 200
        /\ req[r].docs[1].n = 2
        /\ req[r].numbers = <<2, 10, 2>>
        /\ req[r].pages[1] = <<[doc |-> 1, no |-> 2], [doc |-> 1, no |-> 2]>>

\* C20: organizing an N-page document by an order list returns one output
\* whose pages are the entries of the list that lie in 1..N, in list order:
\* a page the list does not name is not in the output, and an entry outside
\* 1..N is passed over without an error.
C20_OrganizeFollowsOrder ==
    \A r \in Reqs :
        Served(r, "organize_pdf")
            => /\ Returned(r) /\ req[r].exc = NoExc
               /\ Len(req[r].result) = 1 /\ Len(req[r].pages) = 1
               /\ Len(req[r].pages[1]) = Len(InDocument(req[r].numbers, req[r].docs[1].n))
               /\ \A k \in 1..Len(req[r].pages[1]) :
                     req[r].pages[1][k] =
                         [doc |-> 1, no |-> InDocument(req[r].numbers, req[r].docs[1].n)[k]]
               /\ \A x \in 1..req[r].docs[1].n :
                     (\A k \in 1..Len(req[r].numbers) : req[r].numbers[k] # x)
                         => \A k \in 1..Len(req[r].pages[1]) : req[r].pages[1][k].no # x

C20_Witness ==
    \E r \in Reqs :
        /\ req[r].op = "organize_pdf" /\ req[r].resp.status = 200
        /\ req[r].docs[1].n = 2
        /\ req[r].numbers = <<3, 2>>
        /\ req[r].pages[1] = <<[doc |-> 1, no |-> 2]>>

\* the pages of 1..n that a removal list does not name
Remaining(numbers, n) == (1..n) \ {numbers[k] : k \in 1..Len(numbers)}

\* C21: removing a list R of page numbers from an N-page document returns
\* one output whose pages are the pages of 1..N not in R, each once, in
\* ascending original order; numbers of R outside 1..N and repetitions in R
\* change nothing, and when R names every page the output has no pages and
\* the call still returns.
C21_RemovePagesIsComplement ==
    \A r \in Reqs :
        Served(r, "remove_pages")
            => /\ Returned(r) /\ req[r].exc = NoExc
               /\ Len(req[r].result) = 1 /\ Len(req[r].pages) = 1
               /\ LET out  == req[r].pages[1]
                      keep == Remaining(req[r].numbers, req[r].docs[1].n)
                  IN  /\ Len(out) = Cardinality(keep)
                      /\ \A k \in 1..Len(out) : out[k].doc = 1 /\ out[k].no \in keep
                      /\ \A j, k \in 1..Len(out) : j < k => out[j].no < out[k].no

C21_Witness ==
    \E r \in Reqs :
        /\ req[r].op = "remove_pages" /\ req[r].resp.status = 200
        /\ req[r].docs[1].n = 5
        /\ req[r].numbers = <<2, 4>>
        /\ req[r].pages[1] = <<[doc |-> 1, no |-> 1], [doc |-> 1, no |-> 3],
                               [doc |-> 1, no |-> 5]>>

\* the client's successful requests up to and including request r
History(r) ==
    IF req[r].pc = "done" /\ req[r].resp.status = 200
    THEN Append(req[r].trail, Hop(req[r])) ELSE req[r].trail

\* the direction a page faces: its rotation modulo a full turn
Facing(rot) == [k \in 1..Len(rot) |-> rot[k] % 360]

\* C22: a rotation turns every page of the document by the angle of the
\* request and keeps the pages and their order; when a document is rotated
\* by 90 and the output by 270, every page of the second output faces as it
\* did in the first input, and the pages and their order are the same.
C22_RotateRoundTrip ==
    \A r \in Reqs :
        LET h == History(r)
        IN  /\ \A i \in 1..Len(h) :
                 h[i].op = "rotate_pdf"
                    => /\ h[i].out.pages = h[i].doc.pages
                       /\ Len(h[i].out.rot) = Len(h[i].doc.rot)
                       /\ \A k \in 1..Len(h[i].doc.rot) :
                             (h[i].out.rot[k] - h[i].doc.rot[k]) % 360 = h[i].angle
            /\ \A i \in 1..(Len(h) - 1) :
                 (h[i].op = "rotate_pdf" /\ h[i].angle = 90
                    /\ h[i + 1].op = "rotate_pdf" /\ h[i + 1].angle = 270)
                    => /\ h[i + 1].doc = h[i].out
                       /\ h[i + 1].out.pages = h[i].doc.pages
                       /\ Facing(h[i + 1].out.rot) = Facing(h[i].doc.rot)

C22_Witness ==
    \E r \in Reqs :
        /\ Len(History(r)) = 2
        /\ History(r)[1].op = "rotate_pdf" /\ History(r)[1].angle = 90
        /\ History(r)[1].doc.rot = <<0, 90>>
        /\ History(r)[2].op = "rotate_pdf" /\ History(r)[2].angle = 270
        /\ Facing(History(r)[2].out.rot) = <<0, 90>>
        /\ req[r].resp.body.output_file \in DOMAIN fs

\* request r called its operation, which found its input
Called(r, op) == req[r].op = op /\ req[r].calls = 1 /\ req[r].exc # MissingError

\* C23: when the uploaded document has a password and the password of the
\* unlock request is another one, the call raises although the fallback runs
\* after the primary path: the request ends with status 500, no output is
\* written and the response names none.
C23_UnlockWrongPasswordFails ==
    \A r \in Reqs :
        (Called(r, "unlock_pdf") /\ req[r].doc.key # <<>> /\ req[r].text # req[r].doc.key)
            => /\ req[r].pc = "done" /\ req[r].at = "facade"
               /\ req[r].tried = <<Primary, Secondary>>
               /\ req[r].resp.status = 500 /\ DOMAIN req[r].resp.body = {}
               /\ req[r].result = <<>> /\ req[r].out = NoDoc
               /\ \A p \in DOMAIN fs :
                     p.pre = "unlocked" => \E i \in 1..Len(req[r].trail) :
                                               req[r].trail[i].op = "unlock_pdf"

C23_Witness ==
    \E r \in Reqs :
        /\ req[r].op = "unlock_pdf" /\ req[r].pc = "done" /\ req[r].calls = 1
        /\ req[r].doc.key = <<"p0">> /\ req[r].text = <<"p1">>
        /\ req[r].sc = "ok" /\ req[r].alt = "ok"
        /\ req[r].resp.status = 500
        /\ Len(req[r].trail) = 1 /\ req[r].trail[1].op = "protect_pdf"

\* C24: protecting a document with a password and unlocking the output with
\* the same password gives the document back, unprotected, with the same
\* pages; and so does unlocking a protected document with its password,
\* protecting the output with a new password and unlocking that output with
\* the new password.
C24_ProtectUnlockRoundTrip ==
    \A r \in Reqs :
        LET h == History(r)
            Protects(i) == h[i].op = "protect_pdf"
            Unlocks(i)  == h[i].op = "unlock_pdf"
        IN  /\ \A i \in 1..(Len(h) - 1) :
                 (Protects(i) /\ Unlocks(i + 1) /\ h[i + 1].text = h[i].text)
                    => h[i + 1].out = h[i].doc /\ h[i + 1].out.key = <<>>
            /\ \A i \in 1..(Len(h) - 2) :
                 (Unlocks(i) /\ h[i].doc.key # <<>> /\ h[i].text = h[i].doc.key
                    /\ Protects(i + 1) /\ Unlocks(i + 2) /\ h[i + 2].text = h[i + 1].text)
                    => /\ h[i + 2].out.pages = h[i].doc.pages
                       /\ h[i + 2].out.rot = h[i].doc.rot
                       /\ h[i + 2].out.key = <<>>
                       /\ h[i + 1].out.key = h[i + 1].text
            /\ \A i \in 1..Len(h) :
                 /\ Protects(i) => h[i].out.key = h[i].text /\ h[i].text # <<>>
                 /\ Unlocks(i) => h[i].out.key = <<>>

C24_Witness ==
    \E r \in Reqs :
        LET h == History(r)
        IN  /\ Len(h) = 4
            /\ h[1].op = "protect_pdf" /\ h[1].text = <<"p0">> /\ Len(h[1].doc.pages) = 2
            /\ h[2].op = "unlock_pdf" /\ h[2].text = <<"p0">>
            /\ h[3].op = "protect_pdf" /\ h[3].text = <<"p1">>
            /\ h[4].op = "unlock_pdf" /\ h[4].text = <<"p1">>
            /\ h[4].out = h[1].doc
            /\ req[r].resp.body.output_file \in DOMAIN fs

\* what the libraries did in the call of request r: the primary library
\* raised; the secondary one raised or would have
PrimaryRaised(r) ==
    \/ req[r].sc # "ok"
    \/ req[r].op = "protect_pdf" /\ req[r].doc.key # <<>>

SecondaryRaised(r) ==
    \/ req[r].alt # "ok"
    \/ req[r].op = "protect_pdf" /\ req[r].doc.key # <<>>

\* C25: a call of compress or protect tries the primary library first and
\* the secondary one exactly when the primary raised, and it raises exactly
\* when both did: a request whose primary library alone raised is answered
\* with success.  A call of optimize tries its one library and raises
\* exactly when that one did.
C25_StrategyChains ==
    \A r \in Reqs :
        /\ (Called(r, "compress_pdf") \/ Called(r, "protect_pdf"))
             => /\ req[r].tried = IF PrimaryRaised(r) THEN <<Primary, Secondary>>
                                  ELSE <<Primary>>
                /\ (req[r].at = "facade") <=> (PrimaryRaised(r) /\ SecondaryRaised(r))
                /\ req[r].at # "facade"
                     => /\ req[r].exc = NoExc /\ Len(req[r].result) = 1
                        /\ req[r].pc = "done" => req[r].resp.status = 200
        /\ Called(r, "optimize_pdf")
             => /\ req[r].tried = <<Primary>>
                /\ (req[r].at = "facade") <=> (req[r].sc # "ok")
                /\ req[r].at = "facade" => req[r].resp.status = 500

C25_Witness ==
    \E r \in Reqs :
        /\ req[r].op = "compress_pdf" /\ req[r].sc = "fail_early" /\ req[r].alt = "ok"
        /\ req[r].tried = <<Primary, Secondary>>
        /\ req[r].pc = "done" /\ req[r].resp.status = 200
        /\ req[r].resp.body.output_file \in DOMAIN fs

\* a text without the blanks before its first and after its last character
\* that is not a blank
Trimmed(text) ==
    LET marks == {k \in 1..Len(text) : text[k] # " "}
    IN  IF marks = {} THEN <<>>
        ELSE SubSeq(text, CHOOSE k \in marks : \A j \in marks : k <= j,
                          CHOOSE k \in marks : \A j \in marks : k >= j)

Statuses == {"MISSING PAGE", "IDENTICAL", "DIFFERENT"}

\* C26: a comparison of inputs with n1 and n2 pages has one row for each
\* index 1..max(n1, n2) with exactly one status: missing when the index is
\* beyond n1 or n2; else identical when the two page texts, trimmed, are
\* equal; else different, with a similarity ratio only when both trimmed
\* texts are not empty.  The three counts of the summary are the numbers of
\* rows of each status, they add up to max(n1, n2), and the missing count
\* is |n1 - n2|.
C26_CompareClassifiesPages ==
    \A r \in Reqs :
        Served(r, "compare_pdfs")
            => LET t1   == req[r].texts[1]
                   t2   == req[r].texts[2]
                   n1   == Len(t1)
                   n2   == Len(t2)
                   rep  == req[r].report
                   Count(st) == Cardinality({i \in 1..Len(rep.rows) : rep.rows[i].status = st})
               IN  /\ Returned(r)
                   /\ Len(rep.rows) = (IF n1 >= n2 THEN n1 ELSE n2)
                   /\ rep.total = Len(rep.rows)
                   /\ \A i \in 1..Len(rep.rows) :
                         LET row == rep.rows[i]
                         IN  /\ row.status \in Statuses
                             /\ row.status = "MISSING PAGE" <=> (i > n1 \/ i > n2)
                             /\ (i <= n1 /\ i <= n2)
                                  => /\ row.status = "IDENTICAL"
                                         <=> Trimmed(t1[i]) = Trimmed(t2[i])
                                     /\ row.similarity
                                         => /\ Trimmed(t1[i]) # <<>>
                                            /\ Trimmed(t2[i]) # <<>>
                             /\ row.similarity => row.status = "DIFFERENT"
                   /\ rep.identical = Count("IDENTICAL")
                   /\ rep.different = Count("DIFFERENT")
                   /\ rep.missing = Count("MISSING PAGE")
                   /\ rep.identical + rep.different + rep.missing = rep.total
                   /\ rep.missing = (IF n1 >= n2 THEN n1 - n2 ELSE n2 - n1)

C26_Witness ==
    \E r \in Reqs :
        /\ req[r].op = "compare_pdfs" /\ req[r].resp.status = 200
        /\ req[r].texts = <<(<<(<<"a", " ">>), (<<"b">>)>>), (<<(<<" ", "a">>)>>)>>
        /\ req[r].report.rows = <<[status |-> "IDENTICAL", similarity |-> FALSE],
                                  [status |-> "MISSING PAGE", similarity |-> FALSE]>>
        /\ req[r].report.missing = 1

\* the words of a text: its longest runs of characters that are not blanks,
\* from left to right
WordStarts(text) ==
    {k \in 1..Len(text) : text[k] # " " /\ (k = 1 \/ text[k - 1] = " ")}

WordFrom(text, k) ==
    SubSeq(text, k, CHOOSE j \in k..Len(text) :
                       /\ \A i \in k..j : text[i] # " "
                       /\ (j = Len(text) \/ text[j + 1] = " "))

WordList(text) ==
    [i \in 1..Cardinality(WordStarts(text)) |->
        WordFrom(text, CHOOSE k \in WordStarts(text) :
                           Cardinality({j \in WordStarts(text) : j < k}) = i - 1)]

\* the lines of a wrapped text: the pieces between its line breaks
Breaks(text) == {k \in 1..Len(text) : text[k] = "<br/>"}

NthBreak(text, i) ==
    IF i = 0 THEN 0
    ELSE IF i > Cardinality(Breaks(text)) THEN Len(text) + 1
    ELSE CHOOSE k \in Breaks(text) : Cardinality({j \in Breaks(text) : j < k}) = i - 1

Lines(text) ==
    [i \in 1..(Cardinality(Breaks(text)) + 1) |->
        SubSeq(text, NthBreak(text, i - 1) + 1, NthBreak(text, i) - 1)]

\* a wrapped text with a blank for every line break
Unbroken(text) == [k \in 1..Len(text) |-> IF text[k] = "<br/>" THEN " " ELSE text[k]]

\* the wrapped cell text of request r follows the rules for its length and
\* its number of words, the length of its lines left aside
WrappedByRule(r) ==
    LET cell == req[r].str
        out  == req[r].wrapped
    IN  /\ Len(cell) <= 30 => out = cell
        /\ (Len(cell) > 30 /\ Len(WordList(cell)) > 1)
             => /\ WordList(Unbroken(out)) = WordList(cell)
                /\ \A i \in 1..Len(Lines(out)) :
                      Lines(out)[i] = <<>>
                        \/ (Lines(out)[i][1] # " " /\ Lines(out)[i][Len(Lines(out)[i])] # " ")
        /\ (Len(cell) > 30 /\ Len(WordList(cell)) = 1)
             => out = SubSeq(cell, 1, 27) \o <<".", ".", ".">>

C27_CellWrapRules ==
    \A r \in Reqs : Served(r, "excel_to_pdf") => Returned(r) /\ WrappedByRule(r)

\* a cell of several words, none longer than 30 characters, laid out in
\* lines of at most 30 characters
C27_Wrapped ==
    \E r \in Reqs :
        /\ req[r].op = "excel_to_pdf" /\ req[r].resp.status = 200
        /\ Len(req[r].str) > 30 /\ Len(WordList(req[r].str)) = 3
        /\ Len(Lines(req[r].wrapped)) = 2
        /\ \A i \in 1..2 : Len(Lines(req[r].wrapped)[i]) <= 30

\* outputs/{base name of the staged input}_page_{i}.jpeg
PageImage(input, i) ==
    [dir |-> "outputs", pre |-> "_page_", idx |-> i, id |-> input.id,
     name |-> SubSeq(input.name, 1, Len(input.name) - 1), suf |-> ".jpeg"]

\* C28: a pdf_to_images call that returns on an N-page document returns N
\* paths, the i-th being the image of page i, none twice, whichever renderer
\* produced them and whatever a renderer before it had saved; a call that
\* does not return raises and hands no list to the handler.
C28_ImagesOnePathPerPage ==
    \A r \in Reqs :
        (req[r].op = "pdf_to_jpg" /\ req[r].calls = 1)
            => IF req[r].at = "facade"
               THEN req[r].result = <<>> /\ req[r].resp.status = 500
               ELSE /\ Len(req[r].result) = req[r].docs[1].n
                    /\ \A i \in 1..Len(req[r].result) :
                          req[r].result[i] = PageImage(req[r].staged[1], i)
                    /\ \A i, j \in 1..Len(req[r].result) :
                          i # j => req[r].result[i] # req[r].result[j]

\* the part of C28 about a call in which every renderer that ran failed
C28_FailureRaises ==
    \A r \in Reqs :
        (req[r].op = "pdf_to_jpg" /\ req[r].calls = 1 /\ req[r].at = "facade")
            => req[r].result = <<>> /\ req[r].resp.status = 500

\* an item with a character that is not a digit, a blank or a dash; an item
\* with more than one dash; an item that begins with a dash
NonNumeric(item) == \E k \in 1..Len(item) : item[k] \notin Digits \cup {" ", "-"}

ManyDashes(item) == Cardinality(Dashes(item)) > 1

DashFirst(item) == Core(item) # <<>> /\ Core(item)[1] = "-"

\* a text that is not JSON: it is not empty and not a bracketed list
NotJson(text) == text # <<>> /\ ~(text[1] = "[" /\ text[Len(text)] = "]")

\* the field of request r has an item, or is a text, that its handler
\* cannot parse
Unparsable(r) ==
    LET text == req[r].str
        op   == req[r].op
    IN  \/ /\ op \in {"split_pdf", "extract_pages", "organize_pdf", "remove_pages"}
           /\ \E i \in 1..ItemCount(text) :
                 \/ NonNumeric(Item(text, i))
                 \/ ManyDashes(Item(text, i))
                 \/ op = "split_pdf" /\ DashFirst(Item(text, i))
        \/ op = "redact_pdf" /\ NotJson(text)

\* C29: in the handlers of split, extract, organize, remove-pages and redact
\* the upload is staged before the field is parsed: a request whose field
\* has a non-numeric item, an item like '1-2-3', in split an item like '-1',
\* or is not JSON, fails in parsing, and a request that fails in parsing has
\* staged its upload, calls no operation, leaves the staged input in
\* uploads/ and is answered with status 500 and the exception's text.
C29_ParseFailureKeepsInput ==
    \A r \in Reqs :
        req[r].op \in {"split_pdf", "extract_pages", "organize_pdf", "remove_pages",
                       "redact_pdf"}
            => /\ (Parsed(r) /\ Unparsable(r)) => req[r].at = "parsing"
               /\ req[r].at = "parsing"
                    => /\ req[r].pc = "done" /\ req[r].calls = 0
                       /\ Len(req[r].staged) = 1
                       /\ req[r].staged[1].dir = "uploads"
                       /\ req[r].staged[1] \in DOMAIN created
                       /\ req[r].staged[1] \in DOMAIN fs
                       /\ req[r].result = <<>>
                       /\ req[r].resp = [status |-> 500, detail |-> req[r].exc.msg,
                                         body |-> [k \in {} |-> ""]]

C29_Witness ==
    \E r \in Reqs :
        /\ req[r].op = "split_pdf" /\ req[r].str = <<"1", "-", "2", "-", "3">>
        /\ req[r].at = "parsing" /\ req[r].resp.status = 500
        /\ req[r].staged[1] \in DOMAIN fs
        /\ \E q \in Reqs : req[q].op = "redact_pdf" /\ req[q].at = "parsing"
                             /\ req[q].staged[1] \in DOMAIN fs

(***************************************************************************)
(* A sweep beside requests in flight                                       *)
(***************************************************************************)
\* the files of a request: the inputs it staged and the outputs it was given
FilesOf(r) == StagedOf(r) \cup {req[r].result[i] : i \in 1..Len(req[r].result)}

\* a file that, for the sweep in progress, is not older than the window
Young(p) ==
    p \in DOMAIN fs /\ sweep.current_time - fs[p].mtime <= sweep.max_age_seconds

\* the files a sweep removes in this step
SweptNow == swept' \ swept

\* the request reached its PDFProcessor call
Dispatched(r) == req[r].pc = "done" /\ req[r].at \in {"none", "facade", "cleanup"}

\* the response of a dispatched request when no sweep runs: every input it
\* staged is in uploads/ at the call and at the cleanup
WithoutSweep(r) ==
    LET rq  == req[r]
        out == IF rq.op \in ListOps \/ rq.result = <<>> THEN NoPath ELSE rq.result[1]
        f   == Facade(rq.op, rq.staged, rq.ranges, rq.numbers, out,
                      WriteAll(InitialFiles, rq.staged, 0), rq.docs, rq.sc,
                      NoImageScenario,
                      [angle |-> rq.angle, text |-> rq.text, doc |-> rq.doc,
                       alt |-> rq.alt, texts |-> rq.texts, str |-> rq.str])
    IN  IF f.exc # NoExc THEN ErrorResponse(f.exc)
        ELSE OkResponse(Body(rq.op, f.result, rq.angle))

\* C30: whatever the interleaving of a sweep with the requests in flight, a
\* step of the sweep removes no input or output of a request that is not
\* older than the sweep's window, age being measured from the start of the
\* sweep (so a file made after the start is kept); a request none of whose
\* inputs a sweep removed is answered as it is when no sweep runs; and the
\* sweep never raises, and counts exactly the entries it removed, none of
\* which is an entry that was gone when the sweep examined it.
C30_SweepSparesYoungFiles ==
    /\ [][\A r \in Reqs : \A p \in FilesOf(r) : Young(p) => p \notin SweptNow]_vars
    /\ [](\A r \in Reqs :
            (Dispatched(r) /\ StagedOf(r) \cap swept = {})
                => req[r].resp = WithoutSweep(r))
    /\ [](/\ sweep.pc # "raised"
          /\ \A e \in sweep.examined : ~e.present => (~e.removed /\ e.os_error)
          /\ sweep.deleted_count = Cardinality({e \in sweep.examined : e.removed}))

\* a sweep with the default window has returned 0; it listed the input of a
\* request before the handler removed it and examined it afterwards, and it
\* kept the request's output, made an hour after the sweep started
C30_Witness ==
    \E r \in Reqs :
        /\ req[r].pc = "done" /\ req[r].resp.status = 200 /\ req[r].op = "split_pdf"
        /\ sweep.pc = "done" /\ sweep.max_age_hours = DefaultMaxAgeHours
        /\ sweep.deleted_count = 0
        /\ \E e \in sweep.examined : e.path = req[r].staged[1] /\ ~e.present
        /\ \E e \in sweep.examined :
              /\ e.path = req[r].result[1] /\ e.present /\ ~e.removed
              /\ e.mtime = sweep.current_time + SecondsPerHour
              /\ e.path \in DOMAIN fs

====
